---- MODULE Spec2Model ----
(***************************************************************************)
(* A model of the forseti DBSP engine: Z-sets, the stream operators, the   *)
(* stateful equi-join and top-K, the bilinear join circuit and the        *)
(* reactive tables and query builder.                                      *)
(* A Z-set is the array ZSet.#data: a sequence of <<record, weight>> pairs *)
(* in insertion order, possibly with duplicates and zero weights.          *)
(* The #isMerged flag and the key caches of ZSet are left out: they only   *)
(* decide whether an idempotent merge or a JSON.stringify is recomputed.   *)
(***************************************************************************)
EXTENDS Integers, Sequences, FiniteSets, TLC

VARIABLES
    inS,            \* stream spec: the input Stream under construction
    out,            \* stream spec: the last operator applied and its output Stream
    indexA,         \* StatefulEquiJoin.indexA: JSON key -> list of <<record, weight>>
    indexB,         \* StatefulEquiJoin.indexB
    materializedViewMap, \* StatefulEquiJoin.materializedViewMap, in Map order
    joinOut,        \* the delta returned by the last processIncrement
    sumA,           \* history: the group sum of every deltaA given so far
    sumB,           \* history: the group sum of every deltaB given so far
    joinCalls,      \* history: number of processIncrement calls since construction/reset
    histA,          \* history: every deltaA entry received since construction/reset, in order
    histB,          \* history: every deltaB entry received since construction/reset, in order
    sumOut,         \* history: the group sum of every delta processIncrement returned
    joinWasReset,   \* history: "no", or what the reset just made found: "empty"/"cleared"
    topk,           \* a StatefulTopK: sortedElements, elementIndex, lastTopK, comparator, limit, offset
    tkOut,          \* the delta returned by the last call on topk
    tkCall,         \* history: the last call on topk, [op, delta]
    tkBefore,       \* history: sortedElements before the last call
    tkInteg,        \* history: the group sum of every delta given to topk
    tkUsedInitial,  \* history: processInitial was called since construction/reset
    tkCalls,        \* history: number of calls since construction/reset
    tkWasReset,     \* history: "no", or what the reset just made found: "empty"/"cleared"
    tupleStream,    \* the Stream<[A, B]> of delta pairs under construction
    cumulativeA,    \* optimizeBilinear closure state
    cumulativeB,    \* optimizeBilinear closure state
    lastProcessedTime, \* optimizeBilinear closure state
    bilOut,         \* the Stream returned by the last execute
    bilIn,          \* history: the tuple stream given to the last execute
    bilExecutes,    \* history: number of execute calls on the circuit
    bilPrev,        \* history: the input and the output of the execute before the last
    table,          \* ReactiveTable.data of the queried table, in Map order
    pipeline,       \* the builder calls that made the query
    nodes,          \* the query's nodes above the TableNode, source first
    currentValue,   \* ReactiveQueryResult.currentValue
    failed,         \* history: the last call on the table if it failed, and the state before it
    tableA,         \* ReactiveTable.data of the left table of a join query
    tableB,         \* ReactiveTable.data of the right table of a join query
    joinNode,       \* the JoinNode of the join query: "none", "ok" or "threw"
    za,             \* a Z-set given to a ZSetGroup / ZSetOperators call
    zb,             \* a second Z-set given to the call
    zc,             \* a third Z-set given to the call
    zout,           \* the last call on za, zb, zc and what it returned
    zobj,           \* one ZSet object: its #data and its #isMerged flag
    zlast,          \* history: the last call on zobj, the object before it, the appends
    observed,       \* history: what the ReactiveQueryResult subscriber was last called with
    rt,             \* one ReactiveTable with its subscribers, and the log of the last call
    rtCall,         \* history: the last call on rt, what it found and returned
    rtCalls,        \* number of mutating calls made on rt
    received        \* history: the group sum of the deltas the callback log1 was given

streamVars == <<inS, out>>
joinVars == <<indexA, indexB, materializedViewMap, joinOut, sumA, sumB, joinCalls,
              joinWasReset, histA, histB, sumOut>>
topkVars == <<topk, tkOut, tkCall, tkBefore, tkInteg, tkUsedInitial, tkCalls,
              tkWasReset>>
joinQueryVars == <<tableA, tableB, joinNode>>
queryVars == <<table, pipeline, nodes, currentValue, failed, observed>>
zsetVars == <<za, zb, zc, zout>>
zobjVars == <<zobj, zlast>>
subsVars == <<rt, rtCall, rtCalls, received>>
bilinearVars == <<tupleStream, cumulativeA, cumulativeB, lastProcessedTime, bilOut,
                  bilIn, bilExecutes, bilPrev>>
vars == <<inS, out, indexA, indexB, materializedViewMap, joinOut, sumA, sumB, joinCalls,
          topk, tkOut, tkCall, tkBefore, tkInteg, tkUsedInitial, tkCalls,
          tupleStream, cumulativeA, cumulativeB, lastProcessedTime, bilOut, bilIn,
          bilExecutes, table, pipeline, nodes, currentValue, tableA, tableB, joinNode,
          za, zb, zc, zout, zobj, zlast, joinWasReset, tkWasReset, failed,
          histA, histB, sumOut, rt, rtCall, rtCalls, observed, bilPrev, received>>

\* What the actions of one component leave alone: the other components.
otherThanStream == <<joinVars, topkVars, bilinearVars, queryVars, joinQueryVars,
    zsetVars, zobjVars, subsVars>>
otherThanJoin == <<streamVars, topkVars, bilinearVars, queryVars, joinQueryVars,
    zsetVars, zobjVars, subsVars>>
otherThanTopK == <<streamVars, joinVars, bilinearVars, queryVars, joinQueryVars,
    zsetVars, zobjVars, subsVars>>
otherThanBilinear == <<streamVars, joinVars, topkVars, queryVars, joinQueryVars,
    zsetVars, zobjVars, subsVars>>
otherThanQuery == <<streamVars, joinVars, topkVars, bilinearVars, joinQueryVars,
    zsetVars, zobjVars, subsVars>>
otherThanZSet == <<streamVars, joinVars, topkVars, bilinearVars, queryVars,
    joinQueryVars, zobjVars, subsVars>>
otherThanZObj == <<streamVars, joinVars, topkVars, bilinearVars, queryVars,
    joinQueryVars, zsetVars, subsVars>>
otherThanSubs == <<streamVars, joinVars, topkVars, bilinearVars, queryVars,
    joinQueryVars, zsetVars, zobjVars>>
\* A join query owns a StatefulEquiJoin: it uses the join's variables.
otherThanJoinQuery == <<streamVars, topkVars, bilinearVars, queryVars,
    zsetVars, zobjVars, subsVars>>

\* ---------------------------------------------------------------- bounds
MaxTime == 3        \* stream times are drawn from 0..MaxTime
MaxSets == 2        \* number of Stream.set calls on a new time
MaxJoinCalls == 3   \* processIncrement calls on one StatefulEquiJoin
MaxTopKCalls == 3   \* processIncrement / processInitial calls on one StatefulTopK
MaxTupleTime == 2   \* largest time set in a tuple stream
MaxTupleSets == 2   \* number of tupleStream.set calls on a new time
MaxExecutes == 2    \* execute calls on one Circuit.equiJoin
MaxAppends == 3     \* append calls on the ZSet object
MaxSplitCalls == 2  \* processIncrement calls before the states a step is split in
MaxMutations == 2   \* mutating calls on the ReactiveTable with subscribers
MaxTableCalls == 3  \* calls on the ReactiveTable created empty

\* ---------------------------------------------------------------- helpers
Max(S) == CHOOSE x \in S : \A y \in S : y <= x
Min2(a, b) == IF a <= b THEN a ELSE b

RECURSIVE SumSeq(_)
SumSeq(ws) == IF ws = <<>> THEN 0 ELSE Head(ws) + SumSeq(Tail(ws))

\* JSON.stringify of a record or key, as the Map key the code uses.
JSONstringify(r) == ToString(r)

\* ---------------------------------------------------------------- ZSet
\* The records of a Z-set, and the consolidated weight of one record:
\* the mathematical reading of the data array (used by the properties).
Recs(z) == {z[i][1] : i \in DOMAIN z}
Weight(z, r) == SumSeq([i \in DOMAIN z |-> IF z[i][1] = r THEN z[i][2] ELSE 0])
ZEq(a, b) == \A r \in Recs(a) \cup Recs(b) : Weight(a, r) = Weight(b, r)

\* One iteration of the loop of mergeRecords: Map.set on the JSON key keeps
\* the position of a key already present and appends a new key.
MergeEntry(acc, e) ==
    IF \E i \in DOMAIN acc : JSONstringify(acc[i][1]) = JSONstringify(e[1])
    THEN [i \in DOMAIN acc |->
            IF JSONstringify(acc[i][1]) = JSONstringify(e[1])
            THEN <<acc[i][1], acc[i][2] + e[2]>> ELSE acc[i]]
    ELSE Append(acc, e)

RECURSIVE MergeFold(_, _)
MergeFold(acc, z) ==
    IF z = <<>> THEN acc ELSE MergeFold(MergeEntry(acc, Head(z)), Tail(z))

mergeRecords(z) == SelectSeq(MergeFold(<<>>, z), LAMBDA e : e[2] # 0)

concat(a, b) == a \o b

isEmpty(z) == Len(z) = 0

\* A faulty variant of negate: the weights keep their sign.
negate_keepSign(a) == a

negate(a) == [i \in DOMAIN a |-> <<a[i][1], 0 - a[i][2]>>]

add(a, b) ==
    IF isEmpty(a) THEN b
    ELSE IF isEmpty(b) THEN a
    ELSE mergeRecords(concat(a, b))

subtract(a, b) == add(a, negate(b))

zero == <<>>

\* ---------------------------------------------------------------- Stream
\* Stream.values is a Map: a sequence of <<time, value>> in insertion order.
StreamNew(gz) == [values |-> <<>>, currentTime |-> 0, groupZero |-> gz]

Times(s) == {s.values[i][1] : i \in DOMAIN s.values}

at(s, t) ==
    IF t \in Times(s)
    THEN s.values[CHOOSE i \in DOMAIN s.values : s.values[i][1] = t][2]
    ELSE s.groupZero

set(s, t, v) ==
    [s EXCEPT
       !.values = IF t \in Times(s)
                  THEN [i \in DOMAIN s.values |->
                          IF s.values[i][1] = t THEN <<t, v>> ELSE s.values[i]]
                  ELSE Append(s.values, <<t, v>>),
       !.currentTime = IF s.currentTime >= t + 1 THEN s.currentTime ELSE t + 1]

entries(s) == s.values

\* integrate: walk t = 0..maxTime, gap times included.
RECURSIVE IntegrateLoop(_, _, _, _, _)
IntegrateLoop(input, t, maxTime, accumulator, output) ==
    IF t > maxTime THEN output
    ELSE LET acc2 == add(accumulator, at(input, t))
         IN  IntegrateLoop(input, t + 1, maxTime, acc2, set(output, t, acc2))

\* A faulty variant of integrate: it accumulates over the set entries only.
RECURSIVE IntegrateEntries(_, _, _)
IntegrateEntries(es, accumulator, output) ==
    IF es = <<>> THEN output
    ELSE LET acc2 == add(accumulator, Head(es)[2])
         IN  IntegrateEntries(Tail(es), acc2, set(output, Head(es)[1], acc2))

integrate_entriesOnly(input) == IntegrateEntries(entries(input), zero, StreamNew(zero))

integrate(input) ==
    IntegrateLoop(input, 0, Max(Times(input) \cup {-1}), zero, StreamNew(zero))

\* differentiate: one output per set entry of the input.
RECURSIVE DiffLoop(_, _, _)
DiffLoop(input, es, output) ==
    IF es = <<>> THEN output
    ELSE LET t == Head(es)[1]
             v == Head(es)[2]
             previous == IF t > 0 THEN at(input, t - 1) ELSE zero
         IN  DiffLoop(input, Tail(es), set(output, t, subtract(v, previous)))

\* A faulty variant of differentiate: the previous value is never subtracted.
RECURSIVE DiffLoopNoPrev(_, _)
DiffLoopNoPrev(es, output) ==
    IF es = <<>> THEN output
    ELSE DiffLoopNoPrev(Tail(es), set(output, Head(es)[1], Head(es)[2]))

differentiate_noPrevious(input) == DiffLoopNoPrev(entries(input), StreamNew(zero))

differentiate(input) == DiffLoop(input, entries(input), StreamNew(zero))

filter(z, predicate) == SelectSeq(z, LAMBDA e : predicate[e[1]])

\* A faulty variant of distinct: the entries are tested without merging.
distinct_noMerge(zset) ==
    LET kept == SelectSeq(zset, LAMBDA e : ~(e[2] < 1))
    IN  mergeRecords([k \in DOMAIN kept |-> <<kept[k][1], 1>>])

\* distinct: merge, then weight 1 for every record of weight at least 1.
distinct(zset) ==
    LET merged == mergeRecords(zset)
        kept == SelectSeq(merged, LAMBDA e : ~(e[2] < 1))
    IN  [k \in DOMAIN kept |-> <<kept[k][1], 1>>]

\* The functions lifted in the model, by name.
LiftFns == {"negate", "filterA", "double", "distinct"}
ApplyF(f, z) ==
    CASE f = "negate"   -> negate(z)
      [] f = "filterA"  -> filter(z, [r \in Recs(z) |-> r = "a"])
      [] f = "double"   -> [i \in DOMAIN z |-> <<z[i][1], 2 * z[i][2]>>]
      [] f = "distinct" -> distinct(z)

\* lift: the default of the output is f(input.at(0)).
RECURSIVE LiftLoop(_, _, _)
LiftLoop(f, es, output) ==
    IF es = <<>> THEN output
    ELSE LiftLoop(f, Tail(es), set(output, Head(es)[1], ApplyF(f, Head(es)[2])))

lift(f, input) == LiftLoop(f, entries(input), StreamNew(ApplyF(f, at(input, 0))))

\* A query is a sequence of lifted functions, applied first to last.
RECURSIVE ApplyQuery(_, _)
ApplyQuery(query, input) ==
    IF query = <<>> THEN input
    ELSE ApplyQuery(Tail(query), lift(Head(query), input))

\* A faulty variant of incrementalize: the deltas are not integrated.
incrementalize_noIntegrate(query, deltaStream) ==
    differentiate(ApplyQuery(query, deltaStream))

\* incrementalize: Q^Delta = D o Q o I.
incrementalize(query, deltaStream) ==
    differentiate(ApplyQuery(query, integrate(deltaStream)))

\* applyChainRule: the incremental op1 followed by the incremental op2.
applyChainRule(op1, op2, input) ==
    LET intermediate == incrementalize(op1, input)
    IN  incrementalize(op2, intermediate)

\* output.set(time, value) for every <<time, value>> of es, in order.
RECURSIVE SetEntries(_, _)
SetEntries(output, es) ==
    IF es = <<>> THEN output
    ELSE SetEntries(set(output, Head(es)[1], Head(es)[2]), Tail(es))

\* delay (z^-1): zero at time 0, every set entry moved one step later.
delay(input) ==
    SetEntries(set(StreamNew(zero), 0, zero),
               [k \in DOMAIN entries(input) |->
                   <<entries(input)[k][1] + 1, entries(input)[k][2]>>])

\* The H function of one step: i is the delayed integral, iPlusDelta the
\* group sum of i and the delta.  data.find reads the first entry of a record.
HStep(i, iPlusDelta) ==
    LET all == i \o iPlusDelta
        str(z, k) == JSONstringify(z[k][1])
        isFirst(z, k) == \A j \in 1..(k - 1) : str(z, j) # str(z, k)
        findWeight(z, elementStr) ==
            IF \E k \in DOMAIN z : str(z, k) = elementStr
            THEN z[CHOOSE k \in DOMAIN z :
                       str(z, k) = elementStr /\ isFirst(z, k)][2]
            ELSE 0
        hValue(elementStr) ==
            LET iWeight == findWeight(i, elementStr)
                iPlusDeltaWeight == findWeight(iPlusDelta, elementStr)
            IN  IF iWeight > 0 /\ iPlusDeltaWeight <= 0 THEN -1
                ELSE IF iWeight <= 0 /\ iPlusDeltaWeight > 0 THEN 1
                ELSE 0
        allElements ==
            SelectSeq([k \in DOMAIN all |-> <<all[k][1], isFirst(all, k)>>],
                      LAMBDA e : e[2])
        result ==
            SelectSeq([k \in DOMAIN allElements |->
                         <<allElements[k][1],
                           hValue(JSONstringify(allElements[k][1]))>>],
                      LAMBDA e : e[2] # 0)
    IN  mergeRecords(result)

\* optimizedDistinctIncremental: one output per set entry of the delta stream.
optimizedDistinctIncremental(deltaStream) ==
    LET delayedIntegrated == delay(integrate(deltaStream))
        es == entries(deltaStream)
    IN  SetEntries(StreamNew(zero),
                   [k \in DOMAIN es |->
                      <<es[k][1],
                        HStep(at(delayedIntegrated, es[k][1]),
                              add(at(delayedIntegrated, es[k][1]), es[k][2]))>>])


\* ---------------------------------------------------------------- stream spec
\* The Z-sets a stream value is drawn from: empty, canonical, with a
\* negative weight, and with a duplicate record (builder form), once with a
\* negative weight listed first.
StreamValues ==
    { <<>>,
      << <<"a", 1>> >>,
      << <<"a", -1>>, <<"b", 2>> >>,
      << <<"b", 1>>, <<"b", 1>> >>,
      << <<"b", -1>>, <<"b", 2>> >> }

NoOut == [op |-> "none", f |-> "none", g |-> "none", res |-> StreamNew(zero)]

StreamIdle ==
    /\ inS = StreamNew(zero)
    /\ out = NoOut

\* input.set(t, v) by the caller building the stream.  The operators are pure
\* functions of the stream, so the stream is built first and one operator is
\* then applied to it: `out` records that application.
StreamSet ==
    \E t \in 0..MaxTime, v \in StreamValues :
       /\ out = NoOut
       /\ t \in Times(inS) \/ Cardinality(Times(inS)) < MaxSets
       /\ inS' = set(inS, t, v)
       /\ out' = NoOut
       /\ UNCHANGED otherThanStream

RunIntegrate ==
    /\ out = NoOut
    /\ out' = [op |-> "integrate", f |-> "none", g |-> "none", res |-> integrate(inS)]
    /\ UNCHANGED <<inS, otherThanStream>>

RunDifferentiate ==
    /\ out = NoOut
    /\ out' = [op |-> "differentiate", f |-> "none", g |-> "none", res |-> differentiate(inS)]
    /\ UNCHANGED <<inS, otherThanStream>>

RunRoundTrip ==
    /\ out = NoOut
    /\ out' = [op |-> "DI", f |-> "none", g |-> "none", res |-> differentiate(integrate(inS))]
    /\ UNCHANGED <<inS, otherThanStream>>

RunLift ==
    \E f \in LiftFns :
       /\ out = NoOut
       /\ out' = [op |-> "lift", f |-> f, g |-> "none", res |-> lift(f, inS)]
       /\ UNCHANGED <<inS, otherThanStream>>

\* Circuit.distinct applied to the input as a stream of deltas.
RunDistinct ==
    /\ out = NoOut
    /\ out' = [op |-> "distinct", f |-> "none", g |-> "none",
               res |-> optimizedDistinctIncremental(inS)]
    /\ UNCHANGED <<inS, otherThanStream>>

RunChainRule ==
    \E q1 \in LiftFns, q2 \in LiftFns :
       /\ out = NoOut
       /\ out' = [op |-> "chain", f |-> q1, g |-> q2,
                  res |-> applyChainRule(<<q1>>, <<q2>>, inS)]
       /\ UNCHANGED <<inS, otherThanStream>>

StreamNext ==
    \/ StreamSet
    \/ RunIntegrate
    \/ RunDifferentiate
    \/ RunRoundTrip
    \/ RunLift
    \/ RunDistinct
    \/ RunChainRule


\* ---------------------------------------------------------------- equi-join
\* Records of the two join inputs: <<id, join key>>.
RecsA == { <<"a1", 1>>, <<"a2", 1>>, <<"a3", 2>> }
RecsB == { <<"b1", 1>>, <<"b2", 2>> }
keyExtractorA == [r \in RecsA |-> r[2]]
keyExtractorB == [r \in RecsB |-> r[2]]

\* A Map<string, Array<[V, number]>>: a function from the JSON keys present.
EmptyIndex == [k \in {} |-> <<>>]
IndexGet(index, keyStr) == IF keyStr \in DOMAIN index THEN index[keyStr] ELSE <<>>

\* A variant of updateIndex that consolidates each list as it appends.
updateIndex_consolidated(index, delta, keyExtractor) ==
    LET keyStr(e) == JSONstringify(keyExtractor[e[1]])
    IN  [k \in DOMAIN index \cup {keyStr(delta[i]) : i \in DOMAIN delta} |->
            mergeRecords(IndexGet(index, k) \o SelectSeq(delta, LAMBDA e : keyStr(e) = k))]

\* updateIndex: append every delta entry, in order, to the list of its key.
updateIndex(index, delta, keyExtractor) ==
    LET keyStr(e) == JSONstringify(keyExtractor[e[1]])
    IN  [k \in DOMAIN index \cup {keyStr(delta[i]) : i \in DOMAIN delta} |->
            IndexGet(index, k) \o SelectSeq(delta, LAMBDA e : keyStr(e) = k)]

RECURSIVE Flatten(_)
Flatten(ss) == IF ss = <<>> THEN <<>> ELSE Head(ss) \o Flatten(Tail(ss))

\* The nested loops shared by the joins: for each <<x, wx>> of the outer
\* data, each match of its key in the looked-up list, keeping non-zero
\* products; the combined record is always [recordA, recordB].
JoinLoop(outer, index, keyExtractor, outerIsA) ==
    Flatten([n \in DOMAIN outer |->
        LET x == outer[n][1]
            wx == outer[n][2]
            matching == IndexGet(index, JSONstringify(keyExtractor[x]))
            prods == [i \in DOMAIN matching |->
                        << IF outerIsA THEN <<x, matching[i][1]>> ELSE <<matching[i][1], x>>,
                           wx * matching[i][2] >>]
        IN  SelectSeq(prods, LAMBDA e : e[2] # 0)])

\* A faulty variant of equiJoin: every joined pair gets weight 1.
equiJoin_unitWeight(a, b, keyA, keyB) ==
    distinct(JoinLoop(a, updateIndex(EmptyIndex, b, keyB), keyA, TRUE))

\* ZSetOperators.equiJoin: the batch join, over a temporary index of b.
equiJoin(a, b, keyA, keyB) ==
    mergeRecords(JoinLoop(a, updateIndex(EmptyIndex, b, keyB), keyA, TRUE))

\* A faulty variant of joinZSets: the delta A x delta B term is lost.
joinZSets_dropped(a, b) == zero

\* StatefulEquiJoin.joinZSets (term 1, delta A x delta B).
joinZSets(a, b) ==
    mergeRecords(JoinLoop(a, updateIndex(EmptyIndex, b, keyExtractorB),
                          keyExtractorA, TRUE))

joinDeltaAgainstIndex(deltaA, idxB) ==
    mergeRecords(JoinLoop(deltaA, idxB, keyExtractorA, TRUE))

joinIndexAgainstDelta(idxA, deltaB) ==
    mergeRecords(JoinLoop(deltaB, idxA, keyExtractorB, FALSE))

\* updateMaterializedView: fold the delta into the Map, entry by entry.
ViewEntry(view, e) ==
    LET key == JSONstringify(e[1])
        has == \E i \in DOMAIN view : JSONstringify(view[i][1]) = key
    IN  IF has
        THEN LET i == CHOOSE j \in DOMAIN view : JSONstringify(view[j][1]) = key
                 newWeight == view[i][2] + e[2]
             IN  IF newWeight = 0
                 THEN SelectSeq(view, LAMBDA v : JSONstringify(v[1]) # key)
                 ELSE [view EXCEPT ![i] = <<view[i][1], newWeight>>]
        ELSE IF e[2] # 0 THEN Append(view, e) ELSE view

\* A variant of updateMaterializedView that appends instead of upserting.
updateMaterializedView_appendOnly(view, deltaResult) == view \o deltaResult

RECURSIVE updateMaterializedView(_, _)
updateMaterializedView(view, deltaResult) ==
    IF deltaResult = <<>> THEN view
    ELSE updateMaterializedView(ViewEntry(view, Head(deltaResult)), Tail(deltaResult))

getMaterializedView == materializedViewMap

\* A variant of processIncrement without the term deltaA x deltaB.
JoinDeltaOn_withoutTerm1(ixA, ixB, deltaA, deltaB) ==
    LET r2 == IF ~isEmpty(deltaA)
              THEN add(zero, joinDeltaAgainstIndex(deltaA, ixB)) ELSE zero
        r3 == IF ~isEmpty(deltaB)
              THEN add(r2, joinIndexAgainstDelta(ixA, deltaB)) ELSE r2
    IN  r3

\* The delta processIncrement computes over the indexes ixA and ixB.
JoinDeltaOn(ixA, ixB, deltaA, deltaB) ==
    LET r1 == IF ~isEmpty(deltaA) /\ ~isEmpty(deltaB)
              THEN add(zero, joinZSets(deltaA, deltaB)) ELSE zero
        r2 == IF ~isEmpty(deltaA)
              THEN add(r1, joinDeltaAgainstIndex(deltaA, ixB)) ELSE r1
        r3 == IF ~isEmpty(deltaB)
              THEN add(r2, joinIndexAgainstDelta(ixA, deltaB)) ELSE r2
    IN  r3

\* The delta computed by processIncrement from the state before the call.
JoinDelta(deltaA, deltaB) == JoinDeltaOn(indexA, indexB, deltaA, deltaB)

\* The state change of StatefulEquiJoin.processIncrement(deltaA, deltaB).
JoinStep(deltaA, deltaB) ==
    LET deltaResult == JoinDelta(deltaA, deltaB)
    IN  /\ indexA' = updateIndex(indexA, deltaA, keyExtractorA)
        /\ indexB' = updateIndex(indexB, deltaB, keyExtractorB)
        /\ materializedViewMap' = updateMaterializedView(materializedViewMap, deltaResult)
        /\ joinOut' = deltaResult
        /\ sumA' = add(sumA, deltaA)
        /\ sumB' = add(sumB, deltaB)
        /\ joinCalls' = joinCalls + 1
        /\ joinWasReset' = "no"
        /\ histA' = histA \o deltaA
        /\ histB' = histB \o deltaB
        /\ sumOut' = add(sumOut, deltaResult)

\* The deltas given to the join: empty, an insertion, a deletion, an update
\* (old -1, new +1, changing the join key), and the same record twice.
DeltasA == { <<>>,
             << <<<<"a1", 1>>, 1>> >>,
             << <<<<"a1", 1>>, -1>> >>,
             << <<<<"a2", 1>>, 1>> >>,
             << <<<<"a1", 1>>, -1>>, <<<<"a3", 2>>, 1>> >>,
             << <<<<"a2", 1>>, 1>>, <<<<"a2", 1>>, 1>> >> }
DeltasB == { <<>>,
             << <<<<"b1", 1>>, 1>> >>,
             << <<<<"b1", 1>>, -1>> >>,
             << <<<<"b1", 1>>, -1>>, <<<<"b2", 2>>, 1>> >> }
InitialsA == { <<>>, << <<<<"a1", 1>>, 1>>, <<<<"a3", 2>>, 1>> >> }
InitialsB == { <<>>, << <<<<"b1", 1>>, 1>>, <<<<"b2", 2>>, 1>> >> }

JoinIdle ==
    /\ indexA = EmptyIndex
    /\ indexB = EmptyIndex
    /\ materializedViewMap = <<>>
    /\ joinOut = zero
    /\ sumA = zero
    /\ sumB = zero
    /\ joinCalls = 0
    /\ joinWasReset = "no"
    /\ histA = <<>>
    /\ histB = <<>>
    /\ sumOut = zero

JoinProcessIncrement ==
    \E deltaA \in DeltasA, deltaB \in DeltasB :
       /\ joinCalls < MaxJoinCalls
       /\ JoinStep(deltaA, deltaB)
       /\ UNCHANGED otherThanJoin

\* initialize(initialA, initialB) is processIncrement(initialA, initialB).
JoinInitialize ==
    \E initialA \in InitialsA, initialB \in InitialsB :
       /\ joinCalls < MaxJoinCalls
       /\ JoinStep(initialA, initialB)
       /\ UNCHANGED otherThanJoin

JoinReset ==
    /\ joinCalls > 0
    /\ indexA' = EmptyIndex
    /\ indexB' = EmptyIndex
    /\ materializedViewMap' = <<>>
    /\ joinOut' = zero
    /\ sumA' = zero
    /\ sumB' = zero
    /\ joinCalls' = 0
    /\ histA' = <<>>
    /\ histB' = <<>>
    /\ sumOut' = zero
    /\ joinWasReset' =
          IF indexA = EmptyIndex /\ indexB = EmptyIndex /\ materializedViewMap = <<>>
          THEN "empty" ELSE "cleared"
    /\ UNCHANGED otherThanJoin

JoinNext ==
    \/ JoinProcessIncrement
    \/ JoinInitialize
    \/ JoinReset


\* C1: after any sequence of processIncrement calls on a join that starts
\* empty, getMaterializedView() equals, as a canonical Z-set, the batch
\* equiJoin of the sums of the deltas.
IsCanonical(z) ==
    /\ \A i \in DOMAIN z : z[i][2] # 0
    /\ \A i, j \in DOMAIN z : z[i][1] = z[j][1] => i = j

C1_IncrementalEqualsBatch ==
    /\ IsCanonical(getMaterializedView)
    /\ ZEq(getMaterializedView, equiJoin(sumA, sumB, keyExtractorA, keyExtractorB))

C1_Witness ==
    /\ joinCalls >= 2
    /\ \E i \in DOMAIN sumA : sumA[i][2] < 0
    /\ getMaterializedView # <<>>
    /\ \E k \in DOMAIN indexA : Len(indexA[k]) >= 2

\* C28: the persistent index is the integration of the input: indexA[k]
\* (indexB[k]) holds exactly the entries of every deltaA (deltaB) received
\* since construction or reset whose record has key k, in arrival order, so
\* its consolidation is the integrated input restricted to k; nothing is
\* removed or consolidated, so an insertion and a later deletion of a record
\* leave two entries.
C28_IndexIsIntegration ==
    LET holds(index, hist, keyExtractor, sum) ==
           /\ DOMAIN index = {JSONstringify(keyExtractor[hist[i][1]]) : i \in DOMAIN hist}
           /\ \A k \in DOMAIN index :
                 /\ index[k] = SelectSeq(hist,
                                   LAMBDA e : JSONstringify(keyExtractor[e[1]]) = k)
                 /\ \A r \in Recs(index[k]) : Weight(index[k], r) = Weight(sum, r)
           /\ \A r \in Recs(sum) :
                 Weight(IndexGet(index, JSONstringify(keyExtractor[r])), r) = Weight(sum, r)
    IN  /\ holds(indexA, histA, keyExtractorA, sumA)
        /\ holds(indexB, histB, keyExtractorB, sumB)

\* A record inserted by one call and deleted by a later one: two entries.
C28_Witness ==
    /\ joinCalls >= 2
    /\ \E k \in DOMAIN indexA :
          \E i, j \in DOMAIN indexA[k] :
             /\ i < j
             /\ indexA[k][i][1] = indexA[k][j][1]
             /\ indexA[k][i][2] = 1
             /\ indexA[k][j][2] = -1
    /\ indexB # EmptyIndex

\* C29: the materialized-view map holds at most one entry per combined
\* record and no entry of weight zero, and getMaterializedView() is the group
\* sum of all the deltas processIncrement returned since construction or reset.
C29_ViewIsSumOfDeltas ==
    /\ IsCanonical(getMaterializedView)
    /\ \A i, j \in DOMAIN materializedViewMap :
          JSONstringify(materializedViewMap[i][1]) = JSONstringify(materializedViewMap[j][1])
             => i = j
    /\ ZEq(getMaterializedView, sumOut)

\* A view that gained a pair from one call and lost one in a later call.
C29_Witness ==
    /\ joinCalls >= 2
    /\ getMaterializedView # <<>>
    /\ \E i \in DOMAIN joinOut : joinOut[i][2] < 0
    /\ Len(getMaterializedView) < Len(sumOut) \/ joinOut # sumOut

\* The calls that lead to the states in which a step is split.
SplitNext ==
    /\ joinCalls < MaxSplitCalls
    /\ JoinProcessIncrement

\* C35: splitting a step commutes: from any state, processIncrement(dA, dB),
\* processIncrement(dA, {}) then processIncrement({}, dB), and
\* processIncrement({}, dB) then processIncrement(dA, {}) lead to the same
\* indexes up to entry order, the same materialized view and the same group
\* sum of returned deltas.
C35_SplitCommutes ==
    LET Call(st, dA, dB) ==
           LET deltaResult == JoinDeltaOn(st.indexA, st.indexB, dA, dB)
           IN  [indexA |-> updateIndex(st.indexA, dA, keyExtractorA),
                indexB |-> updateIndex(st.indexB, dB, keyExtractorB),
                view |-> updateMaterializedView(st.view, deltaResult),
                sum |-> add(st.sum, deltaResult)]
        now == [indexA |-> indexA, indexB |-> indexB, view |-> materializedViewMap,
                sum |-> zero]
        SameIndex(x, y) ==
           /\ DOMAIN x = DOMAIN y
           /\ \A k \in DOMAIN x : ZEq(x[k], y[k]) /\ Len(x[k]) = Len(y[k])
        Same(s1, s2) ==
           /\ SameIndex(s1.indexA, s2.indexA)
           /\ SameIndex(s1.indexB, s2.indexB)
           /\ ZEq(s1.view, s2.view)
           /\ IsCanonical(s1.view) /\ IsCanonical(s2.view)
           /\ ZEq(s1.sum, s2.sum)
    IN  \A dA \in DeltasA, dB \in DeltasB :
           /\ Same(Call(now, dA, dB), Call(Call(now, dA, zero), zero, dB))
           /\ Same(Call(now, dA, dB), Call(Call(now, zero, dB), dA, zero))

\* A join holding entries on both sides and pairs in its view, where a
\* delta of either side meets the other side's index.
C35_Witness ==
    /\ joinCalls >= 2
    /\ joinOut # zero
    /\ \E k \in DOMAIN indexA \cap DOMAIN indexB : Len(indexA[k]) >= 2
    /\ materializedViewMap # <<>>

\* ---------------------------------------------------------------- stream claims
AllRecs(s) == UNION {Recs(s.values[i][2]) : i \in DOMAIN s.values}
LastTime(s) == Max(Times(s) \cup {-1})
\* The group sum of s[0..t], per record, from the definition of a running sum.
SumUpTo(s, t, r) == SumSeq([i \in 1..(t + 1) |-> Weight(at(s, i - 1), r)])

\* C7: D(I(s))[t] = s[t] for every t >= 0, for streams with gaps between
\* their set times.
C7_RoundTrip ==
    out.op = "DI" =>
       \A t \in 0..(MaxTime + 1) : ZEq(at(out.res, t), at(inS, t))

C7_Witness ==
    /\ out.op = "DI"
    /\ \E t \in 1..MaxTime :
          /\ t \notin Times(inS)
          /\ t < LastTime(inS)
          /\ \E u \in 0..(t - 1) : ~ZEq(at(inS, u), zero)
          /\ ~ZEq(at(out.res, LastTime(inS)), zero)

\* C8: D(s)[t] = s[t] - s[t-1] for every t >= 0 with s[-1] = zero, also at
\* a time that is not set in s and directly follows a set time.
C8_DifferentiateFormula ==
    out.op = "differentiate" =>
       \A t \in 0..(MaxTime + 1) :
          ZEq(at(out.res, t),
              subtract(at(inS, t), IF t > 0 THEN at(inS, t - 1) ELSE zero))

C10_LiftPointwise ==
    out.op = "lift" =>
       \A t \in 0..(MaxTime + 1) :
          ZEq(at(out.res, t), ApplyF(out.f, at(inS, t)))

\* C11: on a delta stream whose integral is positive, the optimized
\* incremental distinct emits at each set time t, for each element, -1 when
\* its consolidated weight is positive in I(s)[t-1] and not in I(s)[t], +1 on
\* the opposite transition and nothing otherwise.
C11_DistinctTransition ==
    (/\ out.op = "distinct"
     /\ \A t \in 0..MaxTime, r \in AllRecs(inS) : SumUpTo(inS, t, r) >= 0)
    => \A t \in Times(inS), r \in AllRecs(inS) :
          LET before == SumUpTo(inS, t - 1, r)
              after == SumUpTo(inS, t, r)
          IN  Weight(at(out.res, t), r) =
                 (IF before > 0 /\ after <= 0 THEN -1
                  ELSE IF before <= 0 /\ after > 0 THEN 1 ELSE 0)

\* C12: applyChainRule(Q1, Q2) gives on every delta stream the same output
\* stream as incrementalize of the composition Q2 after Q1: the same set
\* times and, at every time, the same Z-set.
C12_ChainRule ==
    out.op = "chain" =>
       LET composed == incrementalize(<<out.f, out.g>>, inS)
       IN  /\ Times(out.res) = Times(composed)
           /\ \A t \in 0..(MaxTime + 2) :
                  ZEq(at(out.res, t), at(composed, t))

\* A chain of two different functions run on a stream with two set times,
\* with a non-empty output after time 0.
C12_Witness ==
    /\ out.op = "chain"
    /\ out.f # out.g
    /\ Cardinality(Times(inS)) >= 2
    /\ \E t \in 1..MaxTime : ~isEmpty(at(out.res, t))

\* ---------------------------------------------------------------- top-K
\* Records ranked by the top-K operators: <<id, price>>; p2 and p3 tie.
TopKRecs == { <<"p1", 30>>, <<"p2", 20>>, <<"p3", 20>>, <<"p4", 10>> }

\* limit = Infinity (the default): larger than any sequence of the model.
Infinity == 1000000

\* The comparators given to the operators: by price descending (the tests'
\* priceComparator) and the constant comparator a limit without sort uses.
Comparators == {"priceDesc", "identity"}
compare(comparator, a, b) ==
    CASE comparator = "priceDesc" -> b[2] - a[2]
      [] comparator = "identity" -> 0
      [] comparator = "fieldAsc" ->
            IF a[2] < b[2] THEN -1 ELSE IF a[2] > b[2] THEN 1 ELSE 0

getKey(record) == JSONstringify(record)

\* Array.prototype.sort with the comparator: a stable sort.
InsertStable(sorted, e, comparator) ==
    LET n == Cardinality({i \in DOMAIN sorted : compare(comparator, sorted[i][1], e[1]) <= 0})
    IN  SubSeq(sorted, 1, n) \o <<e>> \o SubSeq(sorted, n + 1, Len(sorted))

RECURSIVE SortFold(_, _, _)
SortFold(acc, elems, comparator) ==
    IF elems = <<>> THEN acc
    ELSE SortFold(InsertStable(acc, Head(elems), comparator), Tail(elems), comparator)

sortElements(elems, comparator) == SortFold(<<>>, elems, comparator)

\* slice(from, to) with 0-based from and exclusive to.
slice(elems, from, to) == SubSeq(elems, from + 1, Min2(to, Len(elems)))

\* splice(index, 1) with a 0-based index.
splice(elems, index) == SubSeq(elems, 1, index) \o SubSeq(elems, index + 2, Len(elems))

\* updateIndexMap: key -> 0-based position, a later position overwriting.
updateIndexMap(elems) ==
    [k \in {getKey(elems[i][1]) : i \in DOMAIN elems} |->
        Max({i \in DOMAIN elems : getKey(elems[i][1]) = k}) - 1]

\* StatefulTopK constructor.
TopKNew(comparator, limit, offset) ==
    [sortedElements |-> <<>>, elementIndex |-> EmptyIndex, lastTopK |-> zero,
     comparator |-> comparator, limit |-> limit, offset |-> offset]

\* elementIndex.get(key); -1 stands for undefined.
IndexOf(tk, key) == IF key \in DOMAIN tk.elementIndex THEN tk.elementIndex[key] ELSE -1

MapDelete(map, key) == [k \in DOMAIN map \ {key} |-> map[k]]

\* A variant of reSort that rebuilds the map without sorting.
reSort_unsorted(tk) ==
    [tk EXCEPT !.elementIndex = updateIndexMap(tk.sortedElements)]

reSort(tk) ==
    LET sorted == sortElements(tk.sortedElements, tk.comparator)
    IN  [tk EXCEPT !.sortedElements = sorted, !.elementIndex = updateIndexMap(sorted)]

insertElement(tk, record, weight, currentIndex) ==
    IF currentIndex # -1
    THEN LET bumped == [tk.sortedElements EXCEPT ![currentIndex + 1] = <<@[1], @[2] + weight>>]
         IN  IF bumped[currentIndex + 1][2] <= 0
             THEN reSort([tk EXCEPT !.sortedElements = splice(bumped, currentIndex),
                                    !.elementIndex = MapDelete(@, getKey(record))])
             ELSE reSort([tk EXCEPT !.sortedElements = bumped])
    ELSE reSort([tk EXCEPT !.sortedElements = Append(@, <<record, weight>>)])

removeElement(tk, record, weight, currentIndex) ==
    IF currentIndex = -1 THEN tk
    ELSE LET lowered == [tk.sortedElements EXCEPT ![currentIndex + 1] = <<@[1], @[2] - weight>>]
         IN  IF lowered[currentIndex + 1][2] <= 0
             THEN LET spliced == splice(lowered, currentIndex)
                  IN  [tk EXCEPT !.sortedElements = spliced,
                                 !.elementIndex = updateIndexMap(spliced)]
             ELSE [tk EXCEPT !.sortedElements = lowered]

getCurrentTopK(tk) ==
    LET end == Min2(tk.offset + tk.limit, Len(tk.sortedElements))
        window == SelectSeq(slice(tk.sortedElements, tk.offset, end), LAMBDA e : e[2] > 0)
    IN  [i \in DOMAIN window |-> <<window[i][1], Min2(window[i][2], 1)>>]

\* A faulty variant of computeOutputDelta: the new window is returned as the delta.
computeOutputDelta_newOnly(tk, newTopK) == newTopK

computeOutputDelta(tk, newTopK) == subtract(newTopK, tk.lastTopK)

\* The loop of processIncrement over delta.data.
RECURSIVE TopKApply(_, _)
TopKApply(tk, delta) ==
    IF delta = <<>> THEN tk
    ELSE LET record == Head(delta)[1]
             weight == Head(delta)[2]
             currentIndex == IndexOf(tk, getKey(record))
         IN  TopKApply(IF weight > 0
                       THEN insertElement(tk, record, weight, currentIndex)
                       ELSE removeElement(tk, record, 0 - weight, currentIndex),
                       Tail(delta))

\* What a call returns: the operator afterwards and the output delta.
TopKEmit(tk) ==
    LET newTopK == getCurrentTopK(tk)
    IN  [state |-> [tk EXCEPT !.lastTopK = newTopK],
         delta |-> computeOutputDelta(tk, newTopK)]

processIncrement(tk, delta) == TopKEmit(TopKApply(tk, delta))

bulkInitialize(tk, delta) ==
    LET recordMap == MergeFold(<<>>, delta)
        validRecords == sortElements(SelectSeq(recordMap, LAMBDA e : e[2] > 0), tk.comparator)
    IN  TopKEmit([tk EXCEPT !.sortedElements = validRecords,
                            !.elementIndex = updateIndexMap(validRecords)])

processInitial(tk, delta) ==
    IF Len(tk.sortedElements) = 0 THEN bulkInitialize(tk, delta)
    ELSE processIncrement(tk, delta)

\* ZSetOperators.topK: the batch operator.
topK(zset, comparator, k, offset) ==
    LET sorted == sortElements(SelectSeq(zset, LAMBDA e : e[2] > 0), comparator)
        window == slice(sorted, offset, offset + k)
    IN  [i \in DOMAIN window |-> <<window[i][1], Min2(window[i][2], 1)>>]

\* The deltas given to the operator: an insertion or a deletion of one
\* record, and two-entry deltas (an update, a batch, a duplicate, a record
\* listed with both signs).
TopKDeltas ==
    {<<>>} \cup {<< <<r, w>> >> : r \in TopKRecs, w \in {1, -1}}
      \cup { << <<<<"p1", 30>>, 1>>, <<<<"p2", 20>>, 1>> >>,
             << <<<<"p3", 20>>, 1>>, <<<<"p4", 10>>, 1>> >>,
             << <<<<"p4", 10>>, -1>>, <<<<"p1", 30>>, 1>> >>,
             << <<<<"p2", 20>>, 1>>, <<<<"p2", 20>>, 1>> >>,
             << <<<<"p3", 20>>, -1>>, <<<<"p3", 20>>, 1>> >> }

NoCall == [op |-> "none", delta |-> <<>>]

TopKIdle ==
    /\ topk = TopKNew("identity", Infinity, 0)
    /\ tkOut = zero
    /\ tkCall = NoCall
    /\ tkBefore = <<>>
    /\ tkInteg = zero
    /\ tkUsedInitial = FALSE
    /\ tkCalls = 0
    /\ tkWasReset = "no"

\* new StatefulTopK(comparator, limit, offset, group)
TopKConstructed ==
    /\ \E comparator \in Comparators, limit \in {1, 2}, offset \in {0, 1} :
          topk = TopKNew(comparator, limit, offset)
    /\ tkOut = zero
    /\ tkCall = NoCall
    /\ tkBefore = <<>>
    /\ tkInteg = zero
    /\ tkUsedInitial = FALSE
    /\ tkCalls = 0
    /\ tkWasReset = "no"

TopKCalled(op, delta, result) ==
    /\ topk' = result.state
    /\ tkOut' = result.delta
    /\ tkCall' = [op |-> op, delta |-> delta]
    /\ tkBefore' = topk.sortedElements
    /\ tkInteg' = add(tkInteg, delta)
    /\ tkCalls' = tkCalls + 1
    /\ tkWasReset' = "no"
    /\ UNCHANGED otherThanTopK

TopKProcessIncrement ==
    \E delta \in TopKDeltas :
       /\ tkCalls < MaxTopKCalls
       /\ TopKCalled("processIncrement", delta, processIncrement(topk, delta))
       /\ UNCHANGED tkUsedInitial

TopKProcessInitial ==
    \E delta \in TopKDeltas :
       /\ tkCalls < MaxTopKCalls
       /\ TopKCalled("processInitial", delta, processInitial(topk, delta))
       /\ tkUsedInitial' = TRUE

\* What reset leaves beside the operator: the history starts again.
TopKAfterReset ==
    /\ tkOut' = zero
    /\ tkCall' = NoCall
    /\ tkBefore' = <<>>
    /\ tkInteg' = zero
    /\ tkUsedInitial' = FALSE
    /\ tkCalls' = 0
    /\ tkWasReset' = IF topk = TopKNew(topk.comparator, topk.limit, topk.offset)
                     THEN "empty" ELSE "cleared"
    /\ UNCHANGED otherThanTopK

\* A faulty variant of reset: the previous top-K is kept.
TopKReset_keepLastTopK ==
    /\ tkCalls > 0
    /\ topk' = [topk EXCEPT !.sortedElements = <<>>, !.elementIndex = EmptyIndex]
    /\ TopKAfterReset

TopKReset ==
    /\ tkCalls > 0
    /\ topk' = [topk EXCEPT !.sortedElements = <<>>, !.elementIndex = EmptyIndex,
                            !.lastTopK = zero]
    /\ TopKAfterReset

TopKNext ==
    \/ TopKProcessIncrement
    \/ TopKProcessInitial
    \/ TopKReset

\* C2: after any sequence of deltas given to processIncrement,
\* getCurrentState().topK equals ZSetOperators.topK of the group sum of the
\* deltas (in canonical form), with the same comparator, limit and offset.
C2_TopKIncrementalEqualsBatch ==
    ~tkUsedInitial =>
        ZEq(getCurrentTopK(topk),
            topK(mergeRecords(tkInteg), topk.comparator, topk.limit, topk.offset))

\* The window [offset, offset+limit) of a sorted sequence, with set weights.
WindowOf(elems) == getCurrentTopK([topk EXCEPT !.sortedElements = elems])

\* C4 (returned delta): every call returns newTopK - previousTopK, where
\* previousTopK is the window after the preceding call (empty when fresh
\* or reset), and stores newTopK.
C4_ReturnsWindowDifference ==
    /\ topk.lastTopK = WindowOf(topk.sortedElements)
    /\ tkCall.op # "none" =>
          ZEq(tkOut, subtract(WindowOf(topk.sortedElements), WindowOf(tkBefore)))
    /\ tkCall.op = "none" => WindowOf(tkBefore) = zero

\* The last call inserted one absent record r that outranks every record
\* of a full window.
OutranksFullWindow(r) ==
    /\ tkCall.op # "none"
    /\ tkCall.delta = << <<r, 1>> >>
    /\ r \notin Recs(tkBefore)
    /\ Len(WindowOf(tkBefore)) = topk.limit
    /\ \A x \in Recs(WindowOf(tkBefore)) : compare(topk.comparator, r, x) < 0

\* The records ahead of the window rank at or before r: r lands inside.
LandsInsideWindow(r) ==
    \A i \in 1..topk.offset : compare(topk.comparator, tkBefore[i][1], r) <= 0

\* The output is exactly +1 for plus and -1 for minus.
EmitsSwap(plus, minus) ==
    /\ Weight(tkOut, plus) = 1
    /\ Weight(tkOut, minus) = -1
    /\ \A x \in Recs(tkOut) \ {plus, minus} : Weight(tkOut, x) = 0

Evicted == WindowOf(tkBefore)[topk.limit][1]

\* The last call deleted the record r of weight 1 inside the window.
DeletedInsideWindow(r) ==
    /\ tkCall.op # "none"
    /\ tkCall.delta = << <<r, -1>> >>
    /\ r \in Recs(WindowOf(tkBefore))
    /\ Weight(tkBefore, r) = 1

HasPromoted == Len(tkBefore) > topk.offset + topk.limit
Promoted == tkBefore[topk.offset + topk.limit + 1][1]

C4_DeletionPromotes ==
    \A r \in TopKRecs :
        DeletedInsideWindow(r) =>
            IF HasPromoted THEN EmitsSwap(Promoted, r)
            ELSE Weight(tkOut, r) = -1 /\ \A x \in Recs(tkOut) \ {r} : Weight(tkOut, x) = 0

\* C4 as stated: the returned delta is newTopK - previousTopK; inserting a
\* record that outranks a full window emits +1 for it and -1 for the
\* evicted record; deleting a record inside the window emits -1 for it and
\* +1 for the promoted record.
C4_AsStated ==
    /\ C4_ReturnsWindowDifference
    /\ \A r \in TopKRecs : OutranksFullWindow(r) => EmitsSwap(r, Evicted)
    /\ C4_DeletionPromotes

\* C4 amended: as stated, the insertion case being that of a record which
\* lands inside the window (always so when offset = 0).
C4_Amended ==
    /\ C4_ReturnsWindowDifference
    /\ \A r \in TopKRecs :
          OutranksFullWindow(r) /\ LandsInsideWindow(r) => EmitsSwap(r, Evicted)
    /\ C4_DeletionPromotes

C4_Witness ==
    /\ topk.offset = 1
    /\ \E r \in TopKRecs : OutranksFullWindow(r) /\ LandsInsideWindow(r)
    /\ \E x \in Recs(tkOut) : Weight(tkOut, x) = -1

\* C30: after every processIncrement, processInitial and reset the sorted
\* sequence is ordered by the comparator, holds each key at most once and
\* with a weight > 0, and the key -> position map sends a key to i exactly
\* when the element at position i has that key.
C30_TopKStructure ==
    LET elems == topk.sortedElements
    IN  /\ \A i, j \in DOMAIN elems :
              i < j => compare(topk.comparator, elems[i][1], elems[j][1]) <= 0
        /\ \A i, j \in DOMAIN elems :
              getKey(elems[i][1]) = getKey(elems[j][1]) => i = j
        /\ \A i \in DOMAIN elems : elems[i][2] > 0
        /\ DOMAIN topk.elementIndex = {getKey(elems[i][1]) : i \in DOMAIN elems}
        /\ \A i \in DOMAIN elems : topk.elementIndex[getKey(elems[i][1])] = i - 1

\* Three records held under the price comparator after an insertion that
\* had to be placed before an element already there, and a removal.
C30_Witness ==
    /\ topk.comparator = "priceDesc"
    /\ tkCalls >= 2
    /\ Len(topk.sortedElements) >= 2
    /\ tkCall.op # "none"
    /\ \E i \in DOMAIN tkCall.delta : tkCall.delta[i][2] < 0
                                      /\ tkCall.delta[i][1] \in Recs(tkBefore)
    /\ Recs(tkBefore) \ Recs(topk.sortedElements) # {}

\* C31: after any sequence of deltas the sorted sequence contains exactly
\* the records whose cumulative weight (the sum of all the weights received
\* for the record) is strictly positive.
C31_SortedHoldsPositive ==
    Recs(topk.sortedElements) = {r \in TopKRecs : Weight(tkInteg, r) > 0}

\* C34: bulk initialization is equivalent to incremental processing: on an
\* empty operator processInitial(delta) returns what processIncrement(delta)
\* returns and leaves the same sorted sequence, position map and top-K, for
\* every delta; on a non-empty operator it is processIncrement.
C34_InitialEqualsIncrement ==
    tkCall.op = "processInitial" =>
        LET before == [topk EXCEPT !.sortedElements = tkBefore,
                                   !.elementIndex = updateIndexMap(tkBefore),
                                   !.lastTopK = WindowOf(tkBefore)]
            incremental == processIncrement(before, tkCall.delta)
        IN  /\ topk = incremental.state
            /\ tkOut = incremental.delta

\* ---------------------------------------------------------------- returned values
\* getIndexes() returns { indexA: this.indexA, indexB: this.indexB }: the
\* operator's own Maps, not copies.
getIndexes == [indexA |-> indexA, indexB |-> indexB]

\* A caller's join.getIndexes().indexA.delete(k) (or indexB): the Map it
\* writes to is the operator's field.
CallerDeletesFromIndexes ==
    /\ joinCalls > 0
    /\ \E side \in {"indexA", "indexB"} :
          \E k \in DOMAIN getIndexes[side] :
             /\ indexA' = IF side = "indexA" THEN MapDelete(indexA, k) ELSE indexA
             /\ indexB' = IF side = "indexB" THEN MapDelete(indexB, k) ELSE indexB
    /\ UNCHANGED <<materializedViewMap, joinOut, sumA, sumB, joinCalls, joinWasReset,
                   histA, histB, sumOut, otherThanJoin>>

SharedNext ==
    \/ SplitNext
    \/ CallerDeletesFromIndexes

\* C32: no value returned by the operator shares a mutable structure with its
\* state: whatever a caller did to the values returned so far, the output of
\* the next processIncrement is the one the deltas received so far determine.
C32_StateNotExposed ==
    \A deltaA \in DeltasA, deltaB \in DeltasB :
       JoinDeltaOn(indexA, indexB, deltaA, deltaB)
          = JoinDeltaOn(updateIndex(EmptyIndex, histA, keyExtractorA),
                        updateIndex(EmptyIndex, histB, keyExtractorB), deltaA, deltaB)

\* ---------------------------------------------------------------- reset
\* One StatefulEquiJoin (also behind StatefulJoinCircuit.reset, which
\* delegates to it) and one StatefulTopK.  The two objects share nothing, so
\* their calls are not interleaved: the join is used and reset first, beside
\* one of the top-K operators, and the top-K while the join holds no state.
ResetNext ==
    \/ /\ tkCalls = 0 /\ tkWasReset = "no"
       /\ topk = TopKNew("priceDesc", 2, 1)
       /\ JoinNext
    \/ /\ joinCalls = 0
       /\ TopKNext

\* C19: reset() leaves every internal structure as the constructor does
\* (both indexes and the view of the join; the sorted sequence, the position
\* map and the previous top-K of the top-K), so that the next call returns
\* what it returns on a fresh operator and leaves the same state.
C19_ResetIsFresh ==
    /\ joinWasReset # "no" =>
          /\ indexA = EmptyIndex
          /\ indexB = EmptyIndex
          /\ getMaterializedView = zero
          /\ \A deltaA \in DeltasA, deltaB \in DeltasB :
                ZEq(JoinDelta(deltaA, deltaB),
                    equiJoin(deltaA, deltaB, keyExtractorA, keyExtractorB))
    /\ tkWasReset # "no" =>
          LET fresh == TopKNew(topk.comparator, topk.limit, topk.offset)
          IN  /\ topk = fresh
              /\ \A delta \in TopKDeltas :
                    /\ processIncrement(topk, delta) = processIncrement(fresh, delta)
                    /\ processInitial(topk, delta) = processInitial(fresh, delta)

\* A join and then a top-K that both held state when they were reset.
C19_Witness ==
    /\ joinWasReset = "cleared"
    /\ tkWasReset = "cleared"

\* ---------------------------------------------------------------- bilinear join circuit
\* The closure state of optimizeBilinear and the output under construction.
BilinearState(cumA, cumB, last, output) ==
    [cumulativeA |-> cumA, cumulativeB |-> cumB, lastProcessedTime |-> last,
     output |-> output]

\* One iteration of the loop of optimizeBilinear for the entry <<time, <<deltaA, deltaB>>>>,
\* bilinearOp being ZSetOperators.equiJoin with the circuit's key extractors.
BilinearIteration(st, time, deltaA, deltaB) ==
    IF time <= st.lastProcessedTime THEN st
    ELSE LET r1 == IF ~isEmpty(deltaA) /\ ~isEmpty(deltaB)
                   THEN add(zero, equiJoin(deltaA, deltaB, keyExtractorA, keyExtractorB))
                   ELSE zero
             r2 == IF ~isEmpty(deltaA) /\ ~isEmpty(st.cumulativeB)
                   THEN add(r1, equiJoin(deltaA, st.cumulativeB, keyExtractorA, keyExtractorB))
                   ELSE r1
             r3 == IF ~isEmpty(st.cumulativeA) /\ ~isEmpty(deltaB)
                   THEN add(r2, equiJoin(st.cumulativeA, deltaB, keyExtractorA, keyExtractorB))
                   ELSE r2
         IN  BilinearState(add(st.cumulativeA, deltaA), add(st.cumulativeB, deltaB),
                           time, set(st.output, time, r3))

RECURSIVE BilinearLoop(_, _)
BilinearLoop(st, es) ==
    IF es = <<>> THEN st
    ELSE BilinearLoop(BilinearIteration(st, Head(es)[1], Head(es)[2][1], Head(es)[2][2]),
                      Tail(es))

\* The operator returned by optimizeBilinear, applied to a tuple stream from
\* the closure state (cumA, cumB, last).
optimizeBilinear(cumA, cumB, last, input) ==
    BilinearLoop(BilinearState(cumA, cumB, last, StreamNew(zero)), entries(input))

\* The delta pairs set in the tuple stream: insertions on either side or
\* both, a deletion, and an insertion with a deletion on the other side.
TupleValues ==
    { << << <<<<"a1", 1>>, 1>> >>, <<>> >>,
      << <<>>, << <<<<"b1", 1>>, 1>> >> >>,
      << << <<<<"a2", 1>>, 1>> >>, << <<<<"b1", 1>>, 1>> >> >>,
      << << <<<<"a1", 1>>, -1>> >>, <<>> >>,
      << << <<<<"a3", 2>>, 1>> >>, << <<<<"b1", 1>>, -1>> >> >> }

BilinearIdle ==
    /\ tupleStream = StreamNew(<<zero, zero>>)
    /\ cumulativeA = zero
    /\ cumulativeB = zero
    /\ lastProcessedTime = -1
    /\ bilOut = StreamNew(zero)
    /\ bilIn = StreamNew(<<zero, zero>>)
    /\ bilExecutes = 0
    /\ bilPrev = [input |-> StreamNew(<<zero, zero>>), output |-> StreamNew(zero)]

\* tupleStream.set(t, [deltaA, deltaB]) by the caller building the stream.
TupleSet ==
    \E t \in 0..MaxTupleTime, v \in TupleValues :
       /\ t \in Times(tupleStream) \/ Cardinality(Times(tupleStream)) < MaxTupleSets
       /\ tupleStream' = set(tupleStream, t, v)
       /\ UNCHANGED <<cumulativeA, cumulativeB, lastProcessedTime, bilOut, bilIn,
                      bilExecutes, bilPrev, otherThanBilinear>>

\* circuit.execute(tupleStream) on the Circuit.equiJoin.
BilinearExecute ==
    /\ bilExecutes < MaxExecutes
    /\ LET st == optimizeBilinear(cumulativeA, cumulativeB, lastProcessedTime, tupleStream)
       IN  /\ cumulativeA' = st.cumulativeA
           /\ cumulativeB' = st.cumulativeB
           /\ lastProcessedTime' = st.lastProcessedTime
           /\ bilOut' = st.output
    /\ bilIn' = tupleStream
    /\ bilPrev' = [input |-> bilIn, output |-> bilOut]
    /\ bilExecutes' = bilExecutes + 1
    /\ UNCHANGED <<tupleStream, otherThanBilinear>>

BilinearNext ==
    \/ TupleSet
    \/ BilinearExecute

\* I(a)[t] and I(b)[t] of a tuple stream: the sums over the times up to t.
RECURSIVE IntegratedSide(_, _, _)
IntegratedSide(ts, side, t) ==
    IF t < 0 THEN zero
    ELSE mergeRecords(concat(IntegratedSide(ts, side, t - 1), at(ts, t)[side]))

NaiveJoinAt(ts, t) ==
    equiJoin(IntegratedSide(ts, 1, t), IntegratedSide(ts, 2, t), keyExtractorA, keyExtractorB)

\* C3: for a Circuit.equiJoin executed on a tuple stream of deltas, the
\* output at every set time t equals equiJoin(I(a)[t], I(b)[t]) -
\* equiJoin(I(a)[t-1], I(b)[t-1]).
C3_BilinearEqualsNaive ==
    bilExecutes = 1 =>
        \A t \in Times(bilIn) :
            ZEq(at(bilOut, t), subtract(NaiveJoinAt(bilIn, t), NaiveJoinAt(bilIn, t - 1)))

\* C33: stream operators are pure functions of their input: the same
\* Circuit instance executed twice on the same input stream returns equal
\* output streams (here the circuit of Circuit.equiJoin).
C33_ExecuteIsPure ==
    (bilExecutes >= 2 /\ bilIn = bilPrev.input) => bilOut = bilPrev.output

\* The stream with its entries in increasing time order.
SortedByTime(s) ==
    LET es == entries(s)
        Rank(i) == Cardinality({j \in DOMAIN es : es[j][1] < es[i][1]}) + 1
    IN  [s EXCEPT !.values =
            [n \in DOMAIN es |-> es[CHOOSE i \in DOMAIN es : Rank(i) = n]]]

\* C36 (time order): Circuit.equiJoin processes every set time of a tuple
\* stream exactly once and in increasing time order, whatever the order in
\* which the times were set: the output at each set time is the bilinear
\* delta of that step.
C36_TimeOrder ==
    bilExecutes = 1 =>
        /\ Times(bilOut) = Times(bilIn)
        /\ \A t \in Times(bilIn) :
              at(bilOut, t) = at(optimizeBilinear(zero, zero, -1, SortedByTime(bilIn)).output, t)

\* ---------------------------------------------------------------- reactive table and query builder
\* Table rows: <<id, v>>, id being the idField.
RowIds == {1, 2, 3}
RowValues == {10, 20}

\* ReactiveTable.toZSet
toZSet(rows) == [i \in DOMAIN rows |-> <<rows[i], 1>>]

HasId(rows, id) == \E i \in DOMAIN rows : rows[i][1] = id
RowOf(rows, id) == rows[CHOOSE i \in DOMAIN rows : rows[i][1] = id]

\* Map.set: a new key goes last, an existing key keeps its position.
MapSet(rows, item) ==
    IF HasId(rows, item[1])
    THEN [i \in DOMAIN rows |-> IF rows[i][1] = item[1] THEN item ELSE rows[i]]
    ELSE Append(rows, item)

\* Map.delete
MapDeleteRow(rows, id) == SelectSeq(rows, LAMBDA r : r[1] # id)

\* ZSetOperators.count, sum (of the field v) and makeset.
count(zset) == SumSeq([i \in DOMAIN zset |-> zset[i][2]])
sum(zset) == SumSeq([i \in DOMAIN zset |-> zset[i][1][2] * zset[i][2]])
makeset(value) == << <<value, 1>> >>

aggregateFunc(agg, zset) == IF agg = "count" THEN count(zset) ELSE sum(zset)

\* The predicate given to where: v >= 20.
predicate == [r \in RowIds \X RowValues |-> r[2] >= 20]

\* A builder call: where(predicate), sortBy('v'), limit(count, offset),
\* count() or sum(v).
Stage(op, cnt, offset) == [op |-> op, count |-> cnt, offset |-> offset]
Pipelines ==
    { << Stage("where", 0, 0) >>,
      << Stage("sortBy", 0, 0) >>,
      << Stage("limit", 1, 0) >>,
      << Stage("limit", 1, 1) >>,
      << Stage("count", 0, 0) >>,
      << Stage("sum", 0, 0) >>,
      << Stage("sortBy", 0, 0), Stage("limit", 1, 0) >>,
      << Stage("sortBy", 0, 0), Stage("limit", 2, 0) >>,
      << Stage("where", 0, 0), Stage("limit", 1, 0) >>,
      << Stage("where", 0, 0), Stage("count", 0, 0) >>,
      << Stage("limit", 2, 0), Stage("sum", 0, 0) >> }

\* A node above the TableNode; circuit is used by sort and limit nodes,
\* agg, hasLast and lastResult by aggregate nodes (hasLast FALSE: undefined).
Node(type, circuit, agg) ==
    [type |-> type, circuit |-> circuit, agg |-> agg, hasLast |-> FALSE, lastResult |-> 0]

NoCircuit == TopKNew("identity", 0, 0)

\* node.execute() of the n-th node (0: the TableNode) over the table's Z-set.
RECURSIVE NodeExecute(_, _, _)
NodeExecute(ns, n, tableZ) ==
    IF n = 0 THEN tableZ
    ELSE CASE ns[n].type = "filter" -> filter(NodeExecute(ns, n - 1, tableZ), predicate)
           [] ns[n].type \in {"sort", "limit"} -> getCurrentTopK(ns[n].circuit)
           [] ns[n].type = "aggregate" ->
                 makeset(aggregateFunc(ns[n].agg, NodeExecute(ns, n - 1, tableZ)))

\* getNodesFrom(sourceNode).find(type = 'sort')?.getSortComparator() ?? identity
LimitComparator(ns) == IF \E i \in DOMAIN ns : ns[i].type = "sort" THEN "fieldAsc" ELSE "identity"

\* The node a builder call constructs over the nodes built so far.
NewNode(ns, stage, tableZ) ==
    CASE stage.op = "where" -> Node("filter", NoCircuit, "none")
      [] stage.op = "sortBy" ->
            Node("sort",
                 processInitial(TopKNew("fieldAsc", Infinity, 0),
                                NodeExecute(ns, Len(ns), tableZ)).state,
                 "none")
      [] stage.op = "limit" ->
            Node("limit",
                 processInitial(TopKNew(LimitComparator(ns), stage.count, stage.offset),
                                NodeExecute(ns, Len(ns), tableZ)).state,
                 "none")
      [] stage.op \in {"count", "sum"} -> Node("aggregate", NoCircuit, stage.op)

RECURSIVE BuildNodes(_, _, _)
BuildNodes(ns, stages, tableZ) ==
    IF stages = <<>> THEN ns
    ELSE BuildNodes(Append(ns, NewNode(ns, Head(stages), tableZ)), Tail(stages), tableZ)

\* ReactiveQueryResult.updateCurrentValue / QueryBuilder.toArray: the
\* records of positive weight of the top node's execute().
toArray(ns, tableZ) ==
    LET positive == SelectSeq(NodeExecute(ns, Len(ns), tableZ), LAMBDA e : e[2] > 0)
    IN  [i \in DOMAIN positive |-> positive[i][1]]

\* AggregateNode.execute also stores the result in lastResult.
AfterExecute(ns, tableZ) ==
    IF ns # <<>> /\ ns[Len(ns)].type = "aggregate"
    THEN [ns EXCEPT ![Len(ns)].hasLast = TRUE,
                    ![Len(ns)].lastResult =
                        aggregateFunc(ns[Len(ns)].agg, NodeExecute(ns, Len(ns) - 1, tableZ))]
    ELSE ns

\* The subscription callbacks from node n upwards for a delta arriving at
\* node n: the nodes afterwards, and whether the top node notified.
RECURSIVE Propagate(_, _, _, _)
Propagate(ns, n, delta, tableZ) ==
    IF n > Len(ns) THEN [nodes |-> ns, notified |-> TRUE]
    ELSE CASE ns[n].type = "filter" ->
                 Propagate(ns, n + 1, filter(delta, predicate), tableZ)
           [] ns[n].type \in {"sort", "limit"} ->
                 LET r == processIncrement(ns[n].circuit, delta)
                 IN  Propagate([ns EXCEPT ![n].circuit = r.state], n + 1, r.delta, tableZ)
           [] ns[n].type = "aggregate" ->
                 LET newResult == aggregateFunc(ns[n].agg, NodeExecute(ns, n - 1, tableZ))
                 IN  IF ns[n].hasLast /\ newResult = ns[n].lastResult
                     THEN [nodes |-> ns, notified |-> FALSE]
                     ELSE Propagate([ns EXCEPT ![n].hasLast = TRUE, ![n].lastResult = newResult],
                                    n + 1,
                                    IF ns[n].hasLast
                                    THEN << <<ns[n].lastResult, -1>>, <<newResult, 1>> >>
                                    ELSE << <<newResult, 1>> >>,
                                    tableZ)

\* ReactiveTable.notifySubscribers(delta) after the table became rows.
NoFailure == [op |-> "none", outcome |-> "none", notified |-> FALSE,
              table |-> <<>>, nodes |-> <<>>, currentValue |-> <<>>]

\* A call that failed: what it did (threw or returned false), whether it
\* reached notifySubscribers, and the table and the query before it.
Failure(op, outcome, notified) ==
    [op |-> op, outcome |-> outcome, notified |-> notified,
     table |-> table, nodes |-> nodes, currentValue |-> currentValue]

\* The value a subscriber of the ReactiveQueryResult was last called with,
\* and whether the last mutation of the table called it.
Observed(value, called) == [value |-> value, called |-> called]

\* A variant of the notification in which the result's subscribers are
\* not called before the mutation returns.
Notify_deferred(rows, delta) ==
    LET p == Propagate(nodes, 1, delta, toZSet(rows))
    IN  /\ table' = rows
        /\ failed' = NoFailure
        /\ nodes' = IF p.notified THEN AfterExecute(p.nodes, toZSet(rows)) ELSE p.nodes
        /\ currentValue' = IF p.notified THEN toArray(p.nodes, toZSet(rows)) ELSE currentValue
        /\ observed' = Observed(observed.value, FALSE)
        /\ UNCHANGED <<pipeline, otherThanQuery>>

Notify(rows, delta) ==
    LET p == Propagate(nodes, 1, delta, toZSet(rows))
    IN  /\ table' = rows
        /\ failed' = NoFailure
        /\ nodes' = IF p.notified THEN AfterExecute(p.nodes, toZSet(rows)) ELSE p.nodes
        /\ currentValue' = IF p.notified THEN toArray(p.nodes, toZSet(rows)) ELSE currentValue
        /\ observed' = IF p.notified THEN Observed(toArray(p.nodes, toZSet(rows)), TRUE)
                        ELSE Observed(observed.value, FALSE)
        /\ UNCHANGED <<pipeline, otherThanQuery>>

InitialData == { <<>>, << <<1, 10>>, <<2, 20>> >>, << <<2, 20>>, <<1, 20>>, <<3, 10>> >> }

QueryIdle ==
    /\ table = <<>>
    /\ pipeline = <<>>
    /\ nodes = <<>>
    /\ currentValue = <<>>
    /\ failed = NoFailure
    /\ observed = Observed(<<>>, TRUE)

\* new ReactiveTable(initialData, 'id'); createQuery(table)...reactive()
QueryConstructed ==
    \E initialData \in InitialData, stages \in Pipelines :
       LET ns == BuildNodes(<<>>, stages, toZSet(initialData))
       IN  /\ table = initialData
           /\ pipeline = stages
           /\ nodes = AfterExecute(ns, toZSet(initialData))
           /\ currentValue = toArray(ns, toZSet(initialData))
           /\ failed = NoFailure
           /\ observed = Observed(toArray(ns, toZSet(initialData)), TRUE)

\* table.add(item); an id already present throws.
TableAdd ==
    \E item \in RowIds \X RowValues :
       /\ ~HasId(table, item[1])
       /\ Notify(MapSet(table, item), << <<item, 1>> >>)

\* table.update(id, changes), changes being {} or {v: ...}.
TableUpdate ==
    \E id \in RowIds, v \in RowValues \cup {0} :
       /\ HasId(table, id)
       /\ LET oldItem == RowOf(table, id)
              newItem == IF v = 0 THEN oldItem ELSE <<id, v>>
          IN  Notify(MapSet(table, newItem), << <<oldItem, -1>>, <<newItem, 1>> >>)

\* table.remove(id)
TableRemove ==
    \E id \in RowIds :
       /\ HasId(table, id)
       /\ Notify(MapDeleteRow(table, id), << <<RowOf(table, id), -1>> >>)

\* A faulty variant of the failing add: the record is set before the check.
TableAddThrows_afterSet ==
    \E item \in RowIds \X RowValues :
       /\ HasId(table, item[1])
       /\ failed' = Failure("add", "threw", FALSE)
       /\ table' = MapSet(table, item)
       /\ UNCHANGED <<pipeline, nodes, currentValue, observed, otherThanQuery>>

\* table.add(item) with an id already present: throws before data.set.
TableAddThrows ==
    \E item \in RowIds \X RowValues :
       /\ HasId(table, item[1])
       /\ failed' = Failure("add", "threw", FALSE)
       /\ UNCHANGED <<table, pipeline, nodes, currentValue, observed, otherThanQuery>>

\* table.update(id, changes) with an absent id: throws before data.set.
TableUpdateThrows ==
    \E id \in RowIds :
       /\ ~HasId(table, id)
       /\ failed' = Failure("update", "threw", FALSE)
       /\ UNCHANGED <<table, pipeline, nodes, currentValue, observed, otherThanQuery>>

\* table.remove(id) with an absent id: returns false.
TableRemoveAbsent ==
    \E id \in RowIds :
       /\ ~HasId(table, id)
       /\ failed' = Failure("remove", "false", FALSE)
       /\ UNCHANGED <<table, pipeline, nodes, currentValue, observed, otherThanQuery>>

\* table.safeRemove(id): false for an absent id, otherwise as remove.
TableSafeRemove ==
    \E id \in RowIds :
       IF ~HasId(table, id)
       THEN /\ failed' = Failure("safeRemove", "false", FALSE)
            /\ UNCHANGED <<table, pipeline, nodes, currentValue, observed, otherThanQuery>>
       ELSE Notify(MapDeleteRow(table, id), << <<RowOf(table, id), -1>> >>)

QueryNext ==
    \/ TableAdd
    \/ TableUpdate
    \/ TableRemove
    \/ TableAddThrows
    \/ TableUpdateThrows
    \/ TableRemoveAbsent
    \/ TableSafeRemove

\* An identical query built afresh over the table's current contents.
FreshValue == toArray(BuildNodes(<<>>, pipeline, toZSet(table)), toZSet(table))

Occurrences(xs, x) == Cardinality({i \in DOMAIN xs : xs[i] = x})
SameRecords(xs, ys) ==
    /\ Len(xs) = Len(ys)
    /\ \A i \in DOMAIN xs : Occurrences(xs, xs[i]) = Occurrences(ys, xs[i])

\* C5: after any sequence of add / update / remove calls the value held by
\* reactive() contains the same records as toArray() of an identical query
\* built afresh over the table's current contents.
C5_ReactiveEqualsFresh == SameRecords(currentValue, FreshValue)

\* C20: a failed CRUD call changes nothing: add with an id already present
\* and update with an absent id throw, remove and safeRemove with an absent id
\* return false, the table is as before the call and no subscriber is
\* notified, so the query holds what it held.
C20_FailedCallChangesNothing ==
    failed.op # "none" =>
       /\ failed.outcome = (IF failed.op \in {"add", "update"} THEN "threw" ELSE "false")
       /\ table = failed.table
       /\ ~failed.notified
       /\ nodes = failed.nodes
       /\ currentValue = failed.currentValue

\* A failed call on a table that holds rows under a query with a value.
C20_Witness ==
    /\ failed.op \in {"add", "safeRemove"}
    /\ Len(table) >= 2
    /\ pipeline # <<>>
    /\ currentValue # <<>>

\* C27 (run to completion): in a query built with where / sortBy / limit
\* and reactive(), a table mutation has reached the subscribers of the
\* ReactiveQueryResult when the mutating call returns: that call called
\* them, with the value computed after the mutation.
C27_RunToCompletion ==
    (\A i \in DOMAIN pipeline : pipeline[i].op \in {"where", "sortBy", "limit"}) =>
        /\ observed.called
        /\ observed.value = currentValue

\* A sorted and limited query after mutations that left a table no
\* construction starts from.
C27_Witness ==
    /\ Len(pipeline) = 2
    /\ pipeline[1].op = "sortBy"
    /\ pipeline[2].op = "limit"
    /\ table = << <<3, 20>>, <<1, 10>> >>
    /\ observed.called
    /\ observed.value = currentValue
    /\ failed = NoFailure

\* ---------------------------------------------------------------- join query
\* The methods of StatefulJoinCircuit.
StatefulJoinCircuitMethods ==
    {"processIncrement", "getState", "reset", "initialize", "getMaterializedView"}

JoinQueryIdle ==
    /\ tableA = <<>>
    /\ tableB = <<>>
    /\ joinNode = "none"

\* new ReactiveTable(initialData, 'id') for both tables; no query yet.
JoinQueryConstructed ==
    /\ tableA \in {<<>>, << <<"a1", 1>>, <<"a3", 2>> >>}
    /\ tableB \in {<<>>, << <<"b1", 1>> >>}
    /\ joinNode = "none"

\* createQuery(A).join(B, keyA, keyB): the JoinNode constructor creates the
\* circuit, reads both tables and calls this.circuit.processInitial, which
\* StatefulJoinCircuit does not have: the call throws a TypeError before
\* the subscriptions are made, and no query is returned.
JoinNodeConstruct ==
    /\ joinNode = "none"
    /\ "processInitial" \notin StatefulJoinCircuitMethods
    /\ joinNode' = "threw"
    /\ UNCHANGED <<tableA, tableB, joinVars, otherThanJoinQuery>>

\* The earlier JoinNode constructor of the same file: it calls
\* this.circuit.initialize(initialLeft, initialRight) and then subscribes
\* to both sides.
JoinNodeConstructEarlier ==
    /\ joinNode = "none"
    /\ "initialize" \in StatefulJoinCircuitMethods
    /\ JoinStep(toZSet(tableA), toZSet(tableB))
    /\ joinNode' = "ok"
    /\ UNCHANGED <<tableA, tableB, otherThanJoinQuery>>

\* notifySubscribers of the left table: the JoinNode's callback, when it
\* was subscribed, runs processIncrement(leftDelta, empty).
NotifyLeft(rows, delta) ==
    /\ tableA' = rows
    /\ joinNode = "ok" => joinCalls < MaxJoinCalls
    /\ IF joinNode = "ok" THEN JoinStep(delta, zero) ELSE UNCHANGED joinVars
    /\ UNCHANGED <<tableB, joinNode, otherThanJoinQuery>>

\* notifySubscribers of the right table: processIncrement(empty, rightDelta).
NotifyRight(rows, delta) ==
    /\ tableB' = rows
    /\ joinNode = "ok" => joinCalls < MaxJoinCalls
    /\ IF joinNode = "ok" THEN JoinStep(zero, delta) ELSE UNCHANGED joinVars
    /\ UNCHANGED <<tableA, joinNode, otherThanJoinQuery>>

LeftAdd ==
    \E item \in RecsA :
       /\ ~HasId(tableA, item[1])
       /\ NotifyLeft(MapSet(tableA, item), << <<item, 1>> >>)

\* A.update(id, {})
LeftUpdate ==
    \E item \in RecsA :
       /\ HasId(tableA, item[1])
       /\ NotifyLeft(MapSet(tableA, item), << <<item, -1>>, <<item, 1>> >>)

LeftRemove ==
    \E item \in RecsA :
       /\ HasId(tableA, item[1])
       /\ NotifyLeft(MapDeleteRow(tableA, item[1]), << <<item, -1>> >>)

RightAdd ==
    \E item \in RecsB :
       /\ ~HasId(tableB, item[1])
       /\ NotifyRight(MapSet(tableB, item), << <<item, 1>> >>)

RightRemove ==
    \E item \in RecsB :
       /\ HasId(tableB, item[1])
       /\ NotifyRight(MapDeleteRow(tableB, item[1]), << <<item, -1>> >>)

JoinQueryNext ==
    \/ JoinNodeConstruct
    \/ JoinNodeConstructEarlier
    \/ LeftAdd
    \/ LeftUpdate
    \/ LeftRemove
    \/ RightAdd
    \/ RightRemove

\* C6: after createQuery(A).join(B, keyA, keyB), toArray() equals the
\* equi-join of the current contents of A and B, right after construction
\* and after any interleaving of mutations of A and of B.
C6_JoinQueryEqualsJoin ==
    joinNode # "none" =>
        /\ joinNode = "ok"
        /\ ZEq(getMaterializedView,
               equiJoin(toZSet(tableA), toZSet(tableB), keyExtractorA, keyExtractorB))

\* ---------------------------------------------------------------- Z-set algebra
\* The Z-sets given to the group and to the stateless operators: canonical
\* ones and builder-form ones with a duplicate record or a zero weight.
ZSetValues ==
    { <<>>,
      << <<<<"a1", 1>>, 1>> >>,
      << <<<<"a1", 1>>, -1>> >>,
      << <<<<"a1", 1>>, 2>>, <<<<"a2", 1>>, -1>> >>,
      << <<<<"a2", 1>>, 1>>, <<<<"a3", 2>>, 1>> >>,
      << <<<<"a1", 1>>, 1>>, <<<<"a1", 1>>, -1>> >>,
      << <<<<"a2", 1>>, -1>>, <<<<"a2", 1>>, 3>> >>,
      << <<<<"a3", 2>>, 1>>, <<<<"a3", 2>>, -3>> >>,
      << <<<<"a3", 2>>, 1>>, <<<<"a1", 1>>, 0>> >> }

NoResult == [op |-> "none", args |-> <<>>, res |-> <<>>]

\* project: map every record, then merge.
project(zset, projector) ==
    mergeRecords([i \in DOMAIN zset |-> <<projector[zset[i][1]], zset[i][2]>>])

\* cartesianProduct: every pair with a non-zero product, then merge.
cartesianProduct(a, b) ==
    mergeRecords(Flatten([i \in DOMAIN a |->
        SelectSeq([j \in DOMAIN b |-> << <<a[i][1], b[j][1]>>, a[i][2] * b[j][2] >>],
                  LAMBDA e : e[2] # 0)]))

\* intersect: the index of b maps a JSON key to the sum of its weights.
intersect(a, b) ==
    LET has(r) == \E j \in DOMAIN b : JSONstringify(b[j][1]) = JSONstringify(r)
        weightB(r) == SumSeq([j \in DOMAIN b |->
                         IF JSONstringify(b[j][1]) = JSONstringify(r)
                         THEN b[j][2] ELSE 0])
        prods == [i \in DOMAIN a |-> <<a[i][1], a[i][2] * weightB(a[i][1])>>]
    IN  mergeRecords(SelectSeq(prods, LAMBDA e : has(e[1]) /\ e[2] # 0))

\* join: every pair satisfying the predicate with a non-zero product.
join(a, b, joinPredicate) ==
    mergeRecords(Flatten([i \in DOMAIN a |->
        SelectSeq([j \in DOMAIN b |-> << <<a[i][1], b[j][1]>>, a[i][2] * b[j][2] >>],
                  LAMBDA e : joinPredicate[e[1]] /\ e[2] # 0)]))

union(a, b) == distinct(mergeRecords(concat(a, b)))

difference(a, b) ==
    LET negatedB == [i \in DOMAIN b |-> <<b[i][1], 0 - b[i][2]>>]
    IN  distinct(mergeRecords(concat(a, negatedB)))

\* The stateless operators other than topK, by name, with the arguments
\* the model gives them.
OperatorNames ==
    {"filter", "project", "distinct", "cartesianProduct", "equiJoin", "intersect",
     "join", "union", "difference"}
Operator(op, a, b) ==
    CASE op = "filter" -> filter(a, [r \in RecsA |-> r[2] = 1])
      [] op = "project" -> project(a, [r \in RecsA |-> r[2]])
      [] op = "distinct" -> distinct(a)
      [] op = "cartesianProduct" -> cartesianProduct(a, b)
      [] op = "equiJoin" -> equiJoin(a, b, keyExtractorA, keyExtractorA)
      [] op = "intersect" -> intersect(a, b)
      [] op = "join" -> join(a, b, [pr \in RecsA \X RecsA |-> pr[1][2] <= pr[2][2]])
      [] op = "union" -> union(a, b)
      [] op = "difference" -> difference(a, b)

ZSetIdle ==
    /\ za = <<>>
    /\ zb = <<>>
    /\ zc = <<>>
    /\ zout = NoResult

\* The ZSetGroup operations on za, zb, zc.
GroupApply ==
    /\ zout = NoResult
    /\ zout' = [op |-> "group", args |-> <<>>,
                res |-> [sum |-> add(za, zb),
                         commuted |-> add(zb, za),
                         left |-> add(add(za, zb), zc),
                         right |-> add(za, add(zb, zc)),
                         withZero |-> add(za, zero),
                         withInverse |-> add(za, negate(za)),
                         difference |-> subtract(za, zb)]]
    /\ UNCHANGED <<za, zb, zc, otherThanZSet>>

\* One stateless operator applied to za (and zb).
OperatorApply ==
    \E op \in OperatorNames :
       /\ zout = NoResult
       /\ zout' = [op |-> op, args |-> <<>>, res |-> Operator(op, za, zb)]
       /\ UNCHANGED <<za, zb, zc, otherThanZSet>>

\* ZSetOperators.topK(za, comparator, k, offset)
TopKApply_batch ==
    \E comparator \in Comparators, k \in 1..2, offset \in 0..1 :
       /\ zout = NoResult
       /\ zout' = [op |-> "topK",
                   args |-> [comparator |-> comparator, k |-> k, offset |-> offset],
                   res |-> topK(za, comparator, k, offset)]
       /\ UNCHANGED <<za, zb, zc, otherThanZSet>>

\* The joins applied to a group sum and to its operands.
BilinearApply ==
    /\ zout = NoResult
    /\ zout' =
          [op |-> "bilinear", args |-> <<>>,
           res |-> [joinOfSumA |-> equiJoin(add(za, zb), zc, keyExtractorA, keyExtractorA),
                    sumOfJoinsA |-> add(equiJoin(za, zc, keyExtractorA, keyExtractorA),
                                        equiJoin(zb, zc, keyExtractorA, keyExtractorA)),
                    joinOfSumB |-> equiJoin(zc, add(za, zb), keyExtractorA, keyExtractorA),
                    sumOfJoinsB |-> add(equiJoin(zc, za, keyExtractorA, keyExtractorA),
                                        equiJoin(zc, zb, keyExtractorA, keyExtractorA)),
                    productOfSumA |-> cartesianProduct(add(za, zb), zc),
                    sumOfProductsA |-> add(cartesianProduct(za, zc),
                                           cartesianProduct(zb, zc)),
                    productOfSumB |-> cartesianProduct(zc, add(za, zb)),
                    sumOfProductsB |-> add(cartesianProduct(zc, za),
                                           cartesianProduct(zc, zb))]]
    /\ UNCHANGED <<za, zb, zc, otherThanZSet>>

ZSetNext ==
    \/ GroupApply
    \/ OperatorApply
    \/ TopKApply_batch
    \/ BilinearApply

\* C13: ZSetGroup is an abelian group up to semantic equality: add is
\* commutative and associative, add(a, zero) = a, add(a, negate(a)) = zero and
\* subtract(a, b) = add(a, negate(b)); add sums the weights of each record.
C13_AbelianGroup ==
    zout.op = "group" =>
       /\ ZEq(zout.res.sum, zout.res.commuted)
       /\ ZEq(zout.res.left, zout.res.right)
       /\ ZEq(zout.res.withZero, za)
       /\ ZEq(zout.res.withInverse, zero)
       /\ ZEq(zout.res.difference, add(za, negate(zb)))
       /\ \A r \in Recs(za) \cup Recs(zb) :
             Weight(zout.res.sum, r) = Weight(za, r) + Weight(zb, r)

\* The group operations applied to three non-empty Z-sets, one of them in
\* builder form, whose sum is not empty.
C13_Witness ==
    /\ zout.op = "group"
    /\ ~isEmpty(za) /\ ~isEmpty(zb) /\ ~isEmpty(zc)
    /\ ~IsCanonical(za)
    /\ za # zb
    /\ ~isEmpty(zout.res.sum)

\* C15: every stateless operator returns a canonical Z-set, with no
\* duplicate key and no zero weight, builder-form inputs included.
C15_OperatorsCanonical ==
    zout.op \in OperatorNames \cup {"topK"} => IsCanonical(zout.res)

\* C16: distinct(z) holds a key, with weight exactly 1, if and only if the
\* sum of the key's weights in z is strictly positive.
C16_Distinct ==
    zout.op = "distinct" =>
       /\ IsCanonical(zout.res)
       /\ \A r \in Recs(za) \cup Recs(zout.res) :
             IF Weight(za, r) > 0
             THEN \E i \in DOMAIN zout.res : zout.res[i] = <<r, 1>>
             ELSE r \notin Recs(zout.res)

\* distinct applied to a record listed with a negative and a larger
\* positive weight, and to one listed with a positive and a larger negative.
C16_Witness ==
    /\ zout.op = "distinct"
    /\ \/ /\ za = << <<<<"a2", 1>>, -1>>, <<<<"a2", 1>>, 3>> >>
          /\ zout.res = << <<<<"a2", 1>>, 1>> >>
       \/ /\ za = << <<<<"a3", 2>>, 1>>, <<<<"a3", 2>>, -3>> >>
          /\ zout.res = <<>>

\* C17: equiJoin and cartesianProduct are bilinear: the join of a group sum
\* is the group sum of the joins, on either side.
C17_JoinBilinear ==
    zout.op = "bilinear" =>
       /\ ZEq(zout.res.joinOfSumA, zout.res.sumOfJoinsA)
       /\ ZEq(zout.res.joinOfSumB, zout.res.sumOfJoinsB)
       /\ ZEq(zout.res.productOfSumA, zout.res.sumOfProductsA)
       /\ ZEq(zout.res.productOfSumB, zout.res.sumOfProductsB)

\* The joins of two different non-empty operands that share a record, with
\* a non-empty join.
C17_Witness ==
    /\ zout.op = "bilinear"
    /\ za # zb
    /\ Recs(za) \cap Recs(zb) # {}
    /\ ~isEmpty(zout.res.joinOfSumA)
    /\ ~isEmpty(zout.res.productOfSumB)

\* C18: batch topK canonicalizes its input, drops the keys whose
\* consolidated weight is not positive, sorts by the comparator with ties in
\* input order, takes the positions [offset, offset + k) and gives every
\* survivor weight 1.
C18_BatchTopK ==
    zout.op = "topK" =>
       LET positive == SelectSeq(mergeRecords(za), LAMBDA e : e[2] > 0)
           window == slice(sortElements(positive, zout.args.comparator),
                           zout.args.offset, zout.args.offset + zout.args.k)
       IN  zout.res = [i \in DOMAIN window |-> <<window[i][1], 1>>]

\* ---------------------------------------------------------------- ZSet object
\* A ZSet object: #data and the #isMerged flag.
ZSetNew(data) == [data |-> data, isMerged |-> FALSE]

\* A faulty variant of append: the flag is left as it was.
append_keepFlag(z, d) == [z EXCEPT !.data = Append(z.data, d)]

append(z, d) == [data |-> Append(z.data, d), isMerged |-> FALSE]

\* ZSet.mergeRecords as a method: a merged object returns itself.
ZSet_mergeRecords(z) ==
    IF z.isMerged THEN z
    ELSE [data |-> mergeRecords(z.data), isMerged |-> TRUE]

\* The entries appended to the object.
AppendEntries == {"a", "b"} \X {-1, 0, 1}

ZObjIdle ==
    /\ zobj = ZSetNew(<<>>)
    /\ zlast = [op |-> "new", before |-> ZSetNew(<<>>), appends |-> 0,
                appendedAfterMerge |-> FALSE]

\* zobj.append(d)
ZObjAppend ==
    \E d \in AppendEntries :
       /\ zlast.appends < MaxAppends
       /\ zobj' = append(zobj, d)
       /\ zlast' = [op |-> "append", before |-> zobj,
                    appends |-> zlast.appends + 1,
                    appendedAfterMerge |-> zlast.appendedAfterMerge \/ zobj.isMerged]
       /\ UNCHANGED otherThanZObj

\* zobj = zobj.mergeRecords()
ZObjMergeRecords ==
    /\ zobj' = ZSet_mergeRecords(zobj)
    /\ zlast' = [zlast EXCEPT !.op = "mergeRecords", !.before = zobj]
    /\ UNCHANGED otherThanZObj

ZObjNext ==
    \/ ZObjAppend
    \/ ZObjMergeRecords

\* C14: mergeRecords returns a Z-set with no duplicate key and no zero
\* weight that maps each key to the sum of its weights, merging the result
\* again changes nothing, and an append clears the merged flag so that the
\* next mergeRecords consolidates again.
C14_MergeCanonical ==
    /\ zlast.op = "mergeRecords" =>
          /\ IsCanonical(zobj.data)
          /\ \A r \in Recs(zlast.before.data) \cup Recs(zobj.data) :
                Weight(zobj.data, r) = Weight(zlast.before.data, r)
          /\ ZSet_mergeRecords(zobj) = zobj
          /\ mergeRecords(zobj.data) = zobj.data
    /\ zlast.op = "append" => ~zobj.isMerged

\* A merge that consolidated entries appended to a merged object.
C14_Witness ==
    /\ zlast.op = "mergeRecords"
    /\ zlast.appendedAfterMerge
    /\ ~zlast.before.isMerged
    /\ Len(zobj.data) < Len(zlast.before.data)

\* ---------------------------------------------------------------- table subscribers
\* One ReactiveTable with its Set of subscriber callbacks.  The callbacks:
\* two that record what they receive, one that throws, one that calls
\* table.add from inside its first invocation, one that calls the
\* unsubscribe function of log2, and the callback of a TableNode feeding
\* the SortNode of createQuery(table).sortBy('v').
\* The caller's mutations use the ids 1 and 2, the re-entrant callback adds
\* the record of id 3.
Callbacks == {"log1", "log2", "throws", "reenter", "unsub", "sortNode"}

\* The subscribe calls made after construction, in order.
Subscriptions ==
    { <<>>,
      <<"log1", "log2">>,
      <<"log1", "sortNode", "log2">>,
      <<"throws", "sortNode">>,
      <<"sortNode", "throws", "log2">>,
      <<"log1", "reenter", "log2">>,
      <<"reenter", "sortNode", "throws">>,
      <<"log2", "unsub", "log1">>,
      <<"unsub", "log2", "sortNode">> }

\* new SortNode(tableNode, comparator): the circuit after processInitial.
SortNodeNew(rows) == processInitial(TopKNew("fieldAsc", Infinity, 0), toZSet(rows)).state

\* The table, its subscribers and what the callbacks hold; events, deltas,
\* threw and nested describe the call in progress: the invocations
\* <<callback, delta, unsubscribed before?>> in order, the deltas given to
\* notifySubscribers in order, whether an exception is propagating and
\* whether a callback mutated the table.
ReactiveTableNew(initialData, subs) ==
    [data |-> initialData, subscribers |-> subs, unsubscribed |-> {}, fired |-> {},
     sortCircuit |-> SortNodeNew(initialData),
     events |-> <<>>, deltas |-> <<>>, threw |-> FALSE, nested |-> FALSE]

\* The state a call starts from.
CallStart(st) == [st EXCEPT !.events = <<>>, !.deltas = <<>>, !.threw = FALSE, !.nested = FALSE]

RECURSIVE notifySubscribers(_, _, _)
RECURSIVE callback(_, _, _)

\* for (const callback of this.subscribers) callback(delta): the Set is
\* iterated live, in insertion order; an entry deleted before its turn is
\* skipped, and an exception ends the loop.
notifySubscribers(st, delta, visited) ==
    LET pending == SelectSeq(st.subscribers, LAMBDA c : c \notin visited)
    IN  IF st.threw \/ pending = <<>> THEN st
        ELSE notifySubscribers(callback(st, Head(pending), delta), delta,
                               visited \cup {Head(pending)})

\* A variant of the notification that visits the Set from its last entry.
Notified_reversed(st, delta) ==
    LET Reverse(q) == [i \in DOMAIN q |-> q[Len(q) + 1 - i]]
        r == notifySubscribers([st EXCEPT !.deltas = Append(@, delta),
                                          !.subscribers = Reverse(@)], delta, {})
    IN  [r EXCEPT !.subscribers = Reverse(@)]

\* this.notifySubscribers(delta), called by a mutation.
Notified(st, delta) == notifySubscribers([st EXCEPT !.deltas = Append(@, delta)], delta, {})

\* One invocation of a subscribed callback.
callback(st, c, delta) ==
    LET st1 == [st EXCEPT !.events = Append(@, <<c, delta, c \in st.unsubscribed>>)]
        ReenterItem == <<3, 10>>
        UnsubTarget == "log2"
    IN  CASE c = "throws" -> [st1 EXCEPT !.threw = TRUE]
          [] c = "reenter" ->
                IF c \in st1.fired \/ HasId(st1.data, ReenterItem[1]) THEN st1
                ELSE Notified([st1 EXCEPT !.fired = @ \cup {c}, !.nested = TRUE,
                                          !.data = MapSet(@, ReenterItem)],
                              << <<ReenterItem, 1>> >>)
          [] c = "unsub" ->
                [st1 EXCEPT !.subscribers = SelectSeq(@, LAMBDA x : x # UnsubTarget),
                            !.unsubscribed = @ \cup {UnsubTarget}]
          [] c = "sortNode" ->
                [st1 EXCEPT !.sortCircuit = processIncrement(@, delta).state]
          [] OTHER -> st1

\* ReactiveTable.add (the id is absent).
ReactiveTable_add(st, item) ==
    Notified([st EXCEPT !.data = MapSet(@, item)], << <<item, 1>> >>)

\* ReactiveTable.upsert
ReactiveTable_upsert(st, item) ==
    Notified([st EXCEPT !.data = MapSet(@, item)],
             IF HasId(st.data, item[1])
             THEN << <<RowOf(st.data, item[1]), -1>>, <<item, 1>> >>
             ELSE << <<item, 1>> >>)

\* A variant of safeRemove that notifies even when the id is absent.
ReactiveTable_safeRemove_alwaysNotifies(st, id) ==
    Notified([st EXCEPT !.data = MapDeleteRow(@, id)],
             IF HasId(st.data, id) THEN << <<RowOf(st.data, id), -1>> >> ELSE zero)

\* ReactiveTable.safeRemove: the table afterwards (the call returns whether
\* the id was present).
ReactiveTable_safeRemove(st, id) ==
    IF ~HasId(st.data, id) THEN st
    ELSE Notified([st EXCEPT !.data = MapDeleteRow(@, id)],
                  << <<RowOf(st.data, id), -1>> >>)

\* The loop of applyDelta and of a 'delta' operation over the data map.
RECURSIVE applyDeltaData(_, _)
applyDeltaData(rows, delta) ==
    IF delta = <<>> THEN rows
    ELSE applyDeltaData(IF Head(delta)[2] > 0 THEN MapSet(rows, Head(delta)[1])
                        ELSE IF Head(delta)[2] < 0 THEN MapDeleteRow(rows, Head(delta)[1][1])
                        ELSE rows,
                        Tail(delta))

\* ReactiveTable.applyDelta
ReactiveTable_applyDelta(st, delta) ==
    Notified([st EXCEPT !.data = applyDeltaData(@, delta)], delta)

\* The operations given to batch: {type: 'upsert', item}, {type: 'remove',
\* id} and {type: 'delta', delta}.
Operations ==
    LET Upsert(item) == [type |-> "upsert", item |-> item, id |-> item[1], delta |-> zero]
        Remove(id) == [type |-> "remove", item |-> <<id, 0>>, id |-> id, delta |-> zero]
        Delta(delta) == [type |-> "delta", item |-> <<0, 0>>, id |-> 0, delta |-> delta]
    IN  { <<>>,
          << Upsert(<<1, 10>>) >>,
          << Upsert(<<1, 10>>), Upsert(<<1, 20>>) >>,
          << Upsert(<<2, 20>>), Remove(1) >>,
          << Upsert(<<1, 10>>), Remove(1) >>,
          << Remove(2) >>,
          << Delta(<<>>) >>,
          << Delta(<< <<<<1, 10>>, -1>>, <<<<1, 20>>, 1>> >>), Upsert(<<2, 10>>) >>,
          << Remove(1), Delta(<< <<<<2, 20>>, 1>>, <<<<1, 20>>, 0>> >>), Upsert(<<1, 10>>) >> }

\* The loop of batch: the data map and the collected deltas.
RECURSIVE BatchLoop(_, _, _)
BatchLoop(rows, deltas, operations) ==
    IF operations = <<>> THEN [data |-> rows, deltas |-> deltas]
    ELSE LET op == Head(operations)
         IN  CASE op.type = "upsert" ->
                    BatchLoop(MapSet(rows, op.item),
                              Append(deltas,
                                     IF HasId(rows, op.id)
                                     THEN << <<RowOf(rows, op.id), -1>>, <<op.item, 1>> >>
                                     ELSE << <<op.item, 1>> >>),
                              Tail(operations))
               [] op.type = "remove" ->
                    IF HasId(rows, op.id)
                    THEN BatchLoop(MapDeleteRow(rows, op.id),
                                   Append(deltas, << <<RowOf(rows, op.id), -1>> >>),
                                   Tail(operations))
                    ELSE BatchLoop(rows, deltas, Tail(operations))
               [] op.type = "delta" ->
                    BatchLoop(applyDeltaData(rows, op.delta), Append(deltas, op.delta),
                              Tail(operations))

\* deltas.reduce((acc, delta) => group.add(acc, delta)), no initial value.
RECURSIVE Reduce(_, _)
Reduce(acc, deltas) == IF deltas = <<>> THEN acc ELSE Reduce(add(acc, Head(deltas)), Tail(deltas))

\* A variant of batch that notifies after every operation.
RECURSIVE ReactiveTable_batch_notifyEach(_, _)
ReactiveTable_batch_notifyEach(st, operations) ==
    IF operations = <<>> THEN st
    ELSE LET b == BatchLoop(st.data, <<>>, <<Head(operations)>>)
         IN  ReactiveTable_batch_notifyEach(
                 IF b.deltas = <<>> THEN [st EXCEPT !.data = b.data]
                 ELSE Notified([st EXCEPT !.data = b.data], b.deltas[1]),
                 Tail(operations))

\* ReactiveTable.batch
ReactiveTable_batch(st, operations) ==
    LET b == BatchLoop(st.data, <<>>, operations)
    IN  IF Len(b.deltas) > 0
        THEN Notified([st EXCEPT !.data = b.data], Reduce(Head(b.deltas), Tail(b.deltas)))
        ELSE [st EXCEPT !.data = b.data]

NoTableCall == [op |-> "none", arg |-> <<>>, result |-> TRUE, before |-> <<>>,
                subscribersBefore |-> <<>>, prev |-> <<"none", <<>>>>]

SubsIdle ==
    /\ rt = ReactiveTableNew(<<>>, <<>>)
    /\ rtCall = NoTableCall
    /\ rtCalls = 0
    /\ received = zero

\* new ReactiveTable(initialData, 'id') and the subscribe calls.
SubsConstructed ==
    /\ \E initialData \in {<<>>, << <<1, 10>> >>, << <<2, 20>>, <<1, 20>> >>},
          subs \in Subscriptions :
          rt = ReactiveTableNew(initialData, subs)
    /\ rtCall = NoTableCall
    /\ rtCalls = 0
    /\ received = zero

\* A call of the caller: what it was given and found, and what it left.
TableCalledWithin(bound, op, arg, result, after) ==
    /\ rtCalls < bound
    /\ rt' = after
    /\ rtCall' = [op |-> op, arg |-> arg, result |-> result, before |-> rt.data,
                  subscribersBefore |-> rt.subscribers,
                  prev |-> <<rtCall.op, rtCall.arg>>]
    /\ rtCalls' = rtCalls + 1
    /\ received' = LET given == SelectSeq(after.events, LAMBDA e : e[1] = "log1")
                   IN  Reduce(received, [i \in DOMAIN given |-> given[i][2]])
    /\ UNCHANGED otherThanSubs

TableCalled(op, arg, result, after) == TableCalledWithin(MaxMutations, op, arg, result, after)

SubsAdd ==
    \E item \in {1, 2} \X RowValues :
       /\ ~HasId(rt.data, item[1])
       /\ TableCalled("add", item, TRUE, ReactiveTable_add(CallStart(rt), item))

SubsUpsert ==
    \E item \in {1, 2} \X RowValues :
       TableCalled("upsert", item, TRUE, ReactiveTable_upsert(CallStart(rt), item))

SubsSafeRemove ==
    \E id \in {1, 2} :
       TableCalled("safeRemove", id, HasId(rt.data, id),
                   ReactiveTable_safeRemove(CallStart(rt), id))

SubsBatch ==
    \E operations \in Operations :
       TableCalled("batch", operations, TRUE, ReactiveTable_batch(CallStart(rt), operations))

\* The caller calls the unsubscribe function subscribe returned for a
\* recording callback.
SubsUnsubscribe ==
    \E c \in {"log1", "log2"} :
       /\ \E i \in DOMAIN rt.subscribers : rt.subscribers[i] = c
       /\ rt' = [rt EXCEPT !.subscribers = SelectSeq(@, LAMBDA x : x # c),
                           !.unsubscribed = @ \cup {c}]
       /\ UNCHANGED <<rtCall, rtCalls, received, otherThanSubs>>

SubsNext ==
    \/ SubsAdd
    \/ SubsUpsert
    \/ SubsSafeRemove
    \/ SubsBatch
    \/ SubsUnsubscribe

\* The invocations of the last call that carried delta d, in order.
InvocationsOf(d) == SelectSeq(rt.events, LAMBDA e : e[2] = d)
InvokedWith(c, d) == Cardinality({i \in DOMAIN rt.events : rt.events[i][1] = c /\ rt.events[i][2] = d})

C21_WitnessSafeRemove ==
    /\ rtCall.op = "safeRemove"
    /\ rtCall.prev = <<"safeRemove", rtCall.arg>>
    /\ Len(rt.subscribers) >= 2

\* The operations applied one by one to a table with the same contents.
RECURSIVE OneByOne(_, _)
OneByOne(st, operations) ==
    IF operations = <<>> THEN st
    ELSE LET op == Head(operations)
         IN  OneByOne(CASE op.type = "upsert" -> ReactiveTable_upsert(st, op.item)
                        [] op.type = "remove" -> ReactiveTable_safeRemove(st, op.id)
                        [] op.type = "delta" -> ReactiveTable_applyDelta(st, op.delta),
                      Tail(operations))

C23_WitnessUnsubscribed ==
    /\ ~rt.threw
    /\ rt.deltas # <<>>
    /\ rtCall.subscribersBefore = <<"unsub", "log2", "sortNode">>
    /\ Len(rt.events) = 2

\* C24 (no re-entrancy): a mutation issued from inside a subscriber
\* callback is rejected or deferred: no notification starts inside another,
\* and every subscriber receives the deltas in the order of submission.
C24_NoReentrancy ==
    /\ ~rt.nested
    /\ \A i, j \in DOMAIN rt.events :
          (i < j /\ rt.events[i][1] = rt.events[j][1]) =>
             \A m, n \in DOMAIN rt.deltas :
                (rt.deltas[m] = rt.events[i][2] /\ rt.deltas[n] = rt.events[j][2]) => m <= n

\* C25 (failure isolation): when a callback throws, delivery continues and
\* every other subscriber still receives the delta.
C25_FailureIsolation ==
    rt.threw =>
        \A n \in DOMAIN rt.subscribers, k \in DOMAIN rt.deltas :
           InvokedWith(rt.subscribers[n], rt.deltas[k]) = 1

\* C26: after a mutation during which a callback threw, the sort
\* operator subscribed to the table still holds the table's contents.
C26_ThrowKeepsOperatorState ==
    (rt.threw /\ \E n \in DOMAIN rt.subscribers : rt.subscribers[n] = "sortNode") =>
        ZEq(getCurrentTopK(rt.sortCircuit), topK(toZSet(rt.data), "fieldAsc", Infinity, 0))

\* ---------------------------------------------------------------- table deltas
\* ReactiveTable.update(id, changes) on a present id, changes being {} or {v: ...}.
ReactiveTable_update(st, id, changes) ==
    LET oldItem == RowOf(st.data, id)
        newItem == IF "v" \in DOMAIN changes THEN <<id, changes.v>> ELSE oldItem
    IN  Notified([st EXCEPT !.data = MapSet(@, newItem)],
                 << <<oldItem, -1>>, <<newItem, 1>> >>)

\* A variant of remove that deletes the row without notifying.
ReactiveTable_remove_silent(st, id) ==
    IF ~HasId(st.data, id) THEN st
    ELSE [st EXCEPT !.data = MapDeleteRow(@, id)]

\* ReactiveTable.remove: the table afterwards (the call returns whether the
\* id was present).
ReactiveTable_remove(st, id) ==
    IF ~HasId(st.data, id) THEN st
    ELSE Notified([st EXCEPT !.data = MapDeleteRow(@, id)],
                  << <<RowOf(st.data, id), -1>> >>)

\* ReactiveTable.clear
ReactiveTable_clear(st) ==
    LET allItems == st.data
    IN  IF Len(allItems) > 0
        THEN Notified([st EXCEPT !.data = <<>>],
                      [i \in DOMAIN allItems |-> <<allItems[i], -1>>])
        ELSE [st EXCEPT !.data = <<>>]

\* new ReactiveTable([], 'id') and table.subscribe(log1), then other
\* subscribers.
CrudConstructed ==
    /\ \E subs \in {<<"log1">>, <<"log1", "sortNode">>, <<"log1", "log2">>} :
          rt = ReactiveTableNew(<<>>, subs)
    /\ rtCall = NoTableCall
    /\ rtCalls = 0
    /\ received = zero

\* The successful calls: add of an absent id, update of a present id, remove,
\* upsert, safeRemove, clear, and batch with upsert and remove operations.
CrudNext ==
    \/ \E item \in {1, 2} \X RowValues :
          /\ ~HasId(rt.data, item[1])
          /\ TableCalledWithin(MaxTableCalls, "add", item, TRUE,
                               ReactiveTable_add(CallStart(rt), item))
    \/ \E id \in {1, 2}, changes \in {<<>>} \cup [{"v"} -> RowValues] :
          /\ HasId(rt.data, id)
          /\ TableCalledWithin(MaxTableCalls, "update", <<id, changes>>, TRUE,
                               ReactiveTable_update(CallStart(rt), id, changes))
    \/ \E id \in {1, 2} :
          TableCalledWithin(MaxTableCalls, "remove", id, HasId(rt.data, id),
                            ReactiveTable_remove(CallStart(rt), id))
    \/ \E item \in {1, 2} \X RowValues :
          TableCalledWithin(MaxTableCalls, "upsert", item, TRUE,
                            ReactiveTable_upsert(CallStart(rt), item))
    \/ \E id \in {1, 2} :
          TableCalledWithin(MaxTableCalls, "safeRemove", id, HasId(rt.data, id),
                            ReactiveTable_safeRemove(CallStart(rt), id))
    \/ TableCalledWithin(MaxTableCalls, "clear", <<>>, TRUE, ReactiveTable_clear(CallStart(rt)))
    \/ \E operations \in {ops \in Operations : \A i \in DOMAIN ops : ops[i].type # "delta"} :
          TableCalledWithin(MaxTableCalls, "batch", operations, TRUE,
                            ReactiveTable_batch(CallStart(rt), operations))

\* table.applyDelta(delta), the delta being empty, an insertion, a correction,
\* a removal, an insertion of weight 2, or an insertion with an entry of
\* weight 0.
CrudApplyDelta ==
    \E delta \in { <<>>,
                   << <<<<1, 10>>, 1>> >>,
                   << <<<<1, 10>>, -1>>, <<<<1, 20>>, 1>> >>,
                   << <<<<2, 20>>, -1>> >>,
                   << <<<<2, 10>>, 2>> >>,
                   << <<<<2, 20>>, 1>>, <<<<1, 20>>, 0>> >> } :
       TableCalledWithin(MaxTableCalls, "applyDelta", delta, TRUE,
                         ReactiveTable_applyDelta(CallStart(rt), delta))

ApplyDeltaNext ==
    \/ CrudNext
    \/ CrudApplyDelta

\* C37: for a table created empty, after any sequence of successful add,
\* update, remove, upsert, safeRemove and clear calls and batches of upsert
\* and remove operations, the group sum of the deltas delivered to a
\* subscriber registered at creation equals toZSet(): every live record
\* with weight 1 and nothing else.
C37_DeltasIntegrateToTable ==
    /\ ZEq(received, toZSet(rt.data))
    /\ \A r \in Recs(received) : Weight(received, r) = 1
    /\ \A i, j \in DOMAIN rt.data : rt.data[i][1] = rt.data[j][1] => i = j

\* A third call that removes a row an earlier call changed, leaving a row.
C37_Witness ==
    /\ rtCalls >= 3
    /\ rtCall.op \in {"remove", "clear", "batch"}
    /\ rtCall.prev[1] \in {"update", "upsert"}
    /\ Len(rtCall.before) > Len(rt.data)
    /\ received # zero

\* C38: after applyDelta(delta) the table's toZSet() equals the group sum of
\* its previous toZSet() and delta, the delta delivered to subscribers.
C38_ApplyDeltaConsistent ==
    rtCall.op = "applyDelta" =>
        /\ rt.deltas = <<rtCall.arg>>
        /\ ZEq(toZSet(rt.data), add(toZSet(rtCall.before), rtCall.arg))

\* ---------------------------------------------------------------- specifications
\* Each specification runs one component from its constructed state; the
\* other components stay as constructed.
StreamInit ==
    /\ StreamIdle
    /\ JoinIdle
    /\ TopKIdle
    /\ BilinearIdle
    /\ QueryIdle
    /\ JoinQueryIdle
    /\ ZSetIdle
    /\ ZObjIdle
    /\ SubsIdle
SpecStream == StreamInit /\ [][StreamNext]_vars

JoinInit ==
    /\ JoinIdle
    /\ StreamIdle
    /\ TopKIdle
    /\ BilinearIdle
    /\ QueryIdle
    /\ JoinQueryIdle
    /\ ZSetIdle
    /\ ZObjIdle
    /\ SubsIdle
SpecJoin == JoinInit /\ [][JoinNext]_vars
SpecSplit == JoinInit /\ [][SplitNext]_vars
SpecShared == JoinInit /\ [][SharedNext]_vars

TopKInit ==
    /\ TopKConstructed
    /\ StreamIdle
    /\ JoinIdle
    /\ BilinearIdle
    /\ QueryIdle
    /\ JoinQueryIdle
    /\ ZSetIdle
    /\ ZObjIdle
    /\ SubsIdle
SpecTopK == TopKInit /\ [][TopKNext]_vars

BilinearInit ==
    /\ BilinearIdle
    /\ StreamIdle
    /\ JoinIdle
    /\ TopKIdle
    /\ QueryIdle
    /\ JoinQueryIdle
    /\ ZSetIdle
    /\ ZObjIdle
    /\ SubsIdle
SpecBilinear == BilinearInit /\ [][BilinearNext]_vars

QueryInit ==
    /\ QueryConstructed
    /\ StreamIdle
    /\ JoinIdle
    /\ TopKIdle
    /\ BilinearIdle
    /\ JoinQueryIdle
    /\ ZSetIdle
    /\ ZObjIdle
    /\ SubsIdle
SpecQuery == QueryInit /\ [][QueryNext]_vars

JoinQueryInit ==
    /\ JoinQueryConstructed
    /\ JoinIdle
    /\ StreamIdle
    /\ TopKIdle
    /\ BilinearIdle
    /\ QueryIdle
    /\ ZSetIdle
    /\ ZObjIdle
    /\ SubsIdle
SpecJoinQuery == JoinQueryInit /\ [][JoinQueryNext]_vars

ZSetInit ==
    /\ za \in ZSetValues
    /\ zb \in ZSetValues
    /\ zc \in ZSetValues
    /\ zout = NoResult
    /\ StreamIdle
    /\ JoinIdle
    /\ TopKIdle
    /\ BilinearIdle
    /\ QueryIdle
    /\ JoinQueryIdle
    /\ ZObjIdle
    /\ SubsIdle
SpecZSet == ZSetInit /\ [][ZSetNext]_vars

ZObjInit ==
    /\ ZObjIdle
    /\ ZSetIdle
    /\ StreamIdle
    /\ JoinIdle
    /\ TopKIdle
    /\ BilinearIdle
    /\ QueryIdle
    /\ JoinQueryIdle
    /\ SubsIdle
SpecZObj == ZObjInit /\ [][ZObjNext]_vars

ResetInit ==
    /\ TopKConstructed
    /\ JoinIdle
    /\ StreamIdle
    /\ BilinearIdle
    /\ QueryIdle
    /\ JoinQueryIdle
    /\ ZSetIdle
    /\ ZObjIdle
    /\ SubsIdle
SpecReset == ResetInit /\ [][ResetNext]_vars

SubsInit ==
    /\ SubsConstructed
    /\ StreamIdle
    /\ JoinIdle
    /\ TopKIdle
    /\ BilinearIdle
    /\ QueryIdle
    /\ JoinQueryIdle
    /\ ZSetIdle
    /\ ZObjIdle

CrudInit ==
    /\ CrudConstructed
    /\ StreamIdle
    /\ JoinIdle
    /\ TopKIdle
    /\ BilinearIdle
    /\ QueryIdle
    /\ JoinQueryIdle
    /\ ZSetIdle
    /\ ZObjIdle
SpecCrud == CrudInit /\ [][CrudNext]_vars
SpecApplyDelta == CrudInit /\ [][ApplyDeltaNext]_vars

SpecSubs == SubsInit /\ [][SubsNext]_vars

====
